---- MODULE Spec2Model ----
(***************************************************************************)
(* AbacusKit vision pipeline (Sources/AbacusVision): the tensor converter, *)
(* the soroban detector's lane/cell geometry, the orchestrator             *)
(* (AbacusVision::processInternal) and the two flat C boundaries           *)
(* (the abacus_vision and ab_vision families), as one state machine.       *)
(*                                                                         *)
(* Images are represented by what the code reads of them: their size and   *)
(* channel count, the contours the image library finds in the binary mask, *)
(* and the column projection of the rectified frame.  The heap is a        *)
(* sequence of buffers, each with its length and the number of times it    *)
(* was released.                                                           *)
(***************************************************************************)
EXTENDS Integers, Sequences, FiniteSets, TLC

VARIABLES
    client,     \* which API the client program drives
    params,     \* SorobanDetector::params_ of the handle
    cfgSize,    \* PreprocessingConfig::cellOutputSize held by the converter
    lastFrame,  \* AbacusVision::lastFrame_
    tensor,     \* a caller-held CellTensor
    batch,      \* a caller-held BatchTensor
    result,     \* the caller-held ExtractionResult of abacus_vision_process
    abResult,   \* the caller-held ABExtractionResult of ab_vision_process
    heap,       \* the buffers: [slots, doubleFree]
    call,       \* the last call: its name, arguments, return value and trace
    released,   \* the caller-held objects whose last operation was a release
    crashed,    \* a fault left an extern "C" function, or the process trapped
    threads     \* the processInternal calls in flight on the handle, by thread

vars == <<client, params, cfgSize, lastFrame, tensor, batch, result, abResult,
          heap, call, released, crashed, threads>>

----------------------------------------------------------------------------
(* Bounds of the model. *)

(* Buffers allocated at one time by a direct caller or through a handle. *)
MaxAllocs == 2

(* Buffers allocated at one time behind the bridge, which takes up to      *)
(* three in a call.                                                        *)
MaxBridgeAllocs == 4

(* Cells handed to convertBatch by a direct caller. *)
MaxCells == 2

----------------------------------------------------------------------------
(* VisionError, VisionTypes.hpp *)

None == 0
InvalidInput == 1
FrameNotDetected == 2
LaneExtractionFailed == 3
TensorConversionFailed == 4
MemoryAllocationFailed == 5
OpenCVError == 6

NULL == 0           \* nullptr; buffers are 1, 2, ...

DefaultCellOutputSize == 224
TensorChannels == 3

----------------------------------------------------------------------------
(* The heap: new[] and delete[].  slots[b] is buffer b: its length and    *)
(* whether it is allocated.  new[] takes the first slot that is free, as   *)
(* an allocator reuses addresses; delete[] of a buffer that is not         *)
(* allocated is a double free, which doubleFree records.                   *)

EmptyHeap == [slots |-> <<>>, doubleFree |-> FALSE]

FreeSlot == [len |-> 0, live |-> FALSE]

Live(h, b) == b \in 1..Len(h.slots) /\ h.slots[b].live

LiveIds(h) == {b \in 1..Len(h.slots) : h.slots[b].live}

(* The address the next new[] returns. *)
NewId(h) ==
    LET free == {b \in 1..Len(h.slots) : ~h.slots[b].live}
    IN  IF free = {} THEN Len(h.slots) + 1
        ELSE CHOOSE b \in free : \A c \in free : b <= c

Alloc(h, n) ==
    LET b == NewId(h)
        s == [len |-> n, live |-> TRUE]
    IN  [h EXCEPT !.slots = IF b <= Len(h.slots) THEN [@ EXCEPT ![b] = s]
                            ELSE Append(@, s)]

(* Free slots at the end of the heap are dropped. *)
RECURSIVE Trim(_)
Trim(slots) ==
    IF slots # <<>> /\ ~slots[Len(slots)].live
        THEN Trim(SubSeq(slots, 1, Len(slots) - 1))
    ELSE slots

Delete(h, b) ==
    IF Live(h, b) THEN [h EXCEPT !.slots = Trim([@ EXCEPT ![b] = FreeSlot])]
    ELSE [h EXCEPT !.doubleFree = TRUE]

BufLen(h, b) == IF b = NULL THEN 0 ELSE h.slots[b].len

----------------------------------------------------------------------------
(* CellTensor and BatchTensor, VisionTypes.hpp *)

NewCellTensor ==
    [data |-> NULL, channels |-> TensorChannels,
     height |-> DefaultCellOutputSize, width |-> DefaultCellOutputSize]

NewBatchTensor ==
    [data |-> NULL, batchSize |-> 0, channels |-> TensorChannels,
     height |-> DefaultCellOutputSize, width |-> DefaultCellOutputSize]

CellTensorSize(t) == t.channels * t.height * t.width

BatchTensorSizeOfOneCell(b) == b.channels * b.height * b.width

BatchTensorSize(b) == b.batchSize * b.channels * b.height * b.width

(* cv::Mat as a cell: its size and channel count. *)
MatEmpty(m) == m.rows = 0 \/ m.cols = 0

(* cv::resize(src, dst, Size(s, s)) raises a library fault on an empty     *)
(* source or an empty destination size.                                    *)
ResizeThrows(m, s) == MatEmpty(m) \/ s <= 0

----------------------------------------------------------------------------
(* TensorConverter *)

(* convertCell: <<error, tensor, heap>>.  allocThrows: new[] raises        *)
(* std::bad_alloc; fault: the image library raises a fault.                *)
ConvertCell(cell, t, h, size, allocThrows, fault) ==
    IF MatEmpty(cell) THEN <<InvalidInput, t, h>>
    ELSE IF ResizeThrows(cell, size) \/ fault
        THEN <<TensorConversionFailed, t, h>>
    ELSE IF cell.channels \notin {1, 3} THEN <<InvalidInput, t, h>>
    ELSE LET t1 == [t EXCEPT !.channels = TensorChannels,
                             !.height = size, !.width = size]
         IN  IF allocThrows THEN <<TensorConversionFailed, t1, h>>
             ELSE <<None, [t1 EXCEPT !.data = NewId(h)],
                    Alloc(h, CellTensorSize(t1))>>

(* The first cell of the batch loop that leaves the loop, 0 when none.     *)
FirstFailing(cells, size, faultAt) ==
    LET bad == {i \in 1..Len(cells) :
                   \/ ResizeThrows(cells[i], size)
                   \/ faultAt = i
                   \/ cells[i].channels \notin {1, 3}}
    IN  IF bad = {} THEN 0 ELSE CHOOSE i \in bad : \A j \in bad : i <= j

(* What the batch loop returns at cell i.                                  *)
CellError(cell, size, faulted) ==
    IF ResizeThrows(cell, size) \/ faulted THEN TensorConversionFailed
    ELSE InvalidInput

ConvertBatchKeepsBuffer(cells, b, h, size, allocThrows, faultAt) ==
    IF cells = <<>> THEN <<InvalidInput, b, h>>
    ELSE LET b1 == [b EXCEPT !.batchSize = Len(cells),
                             !.channels = TensorChannels,
                             !.height = size, !.width = size]
             b2 == [b1 EXCEPT !.data = NewId(h)]
             h2 == Alloc(h, BatchTensorSize(b1))
             k  == FirstFailing(cells, size, faultAt)
         IN  IF allocThrows THEN <<TensorConversionFailed, b1, h>>
             ELSE IF k # 0
                 THEN <<CellError(cells[k], size, faultAt = k), b2, h2>>
             ELSE <<None, b2, h2>>

ConvertBatchEagerShape(cells, b, h, size, allocThrows, faultAt) ==
    LET b1 == [b EXCEPT !.batchSize = Len(cells),
                        !.channels = TensorChannels,
                        !.height = size, !.width = size]
        b2 == [b1 EXCEPT !.data = NewId(h)]
        h2 == Alloc(h, BatchTensorSize(b1))
        k  == FirstFailing(cells, size, faultAt)
    IN  IF cells = <<>> THEN <<InvalidInput, b1, h>>
        ELSE IF allocThrows
            THEN <<TensorConversionFailed, [b1 EXCEPT !.data = NULL],
                   IF b1.data # NULL THEN Delete(h, b1.data) ELSE h>>
        ELSE IF k # 0
            THEN <<CellError(cells[k], size, faultAt = k),
                   [b2 EXCEPT !.data = NULL], Delete(h2, b2.data)>>
        ELSE <<None, b2, h2>>

(* convertBatch: <<error, batch, heap>>.  The shape is written and the     *)
(* buffer allocated before the loop; a cell that fails releases the buffer *)
(* and nulls data, leaving the shape as written.  When new[] throws, data  *)
(* still holds what the caller passed in, and the handler releases that.   *)
ConvertBatch(cells, b, h, size, allocThrows, faultAt) ==
    IF cells = <<>> THEN <<InvalidInput, b, h>>
    ELSE LET b1 == [b EXCEPT !.batchSize = Len(cells),
                             !.channels = TensorChannels,
                             !.height = size, !.width = size]
             b2 == [b1 EXCEPT !.data = NewId(h)]
             h2 == Alloc(h, BatchTensorSize(b1))
             k  == FirstFailing(cells, size, faultAt)
         IN  IF allocThrows
                 THEN <<TensorConversionFailed, [b1 EXCEPT !.data = NULL],
                        IF b1.data # NULL THEN Delete(h, b1.data) ELSE h>>
             ELSE IF k # 0
                 THEN <<CellError(cells[k], size, faultAt = k),
                        [b2 EXCEPT !.data = NULL], Delete(h2, b2.data)>>
             ELSE <<None, b2, h2>>

(* The writes of a successful convertBatch, a block at a time: cell i      *)
(* (from 0) is normalised into the cellSize floats that start at           *)
(* batch.data + i * cellSize.                                              *)
BatchBlocks(cells, b) ==
    [i \in 1..Len(cells) |->
        [offset |-> (i - 1) * (b.channels * b.height * b.width),
         len |-> b.channels * b.height * b.width,
         cell |-> cells[i]]]

(* A variant that interleaves the channels of a pixel. *)
NormalizeIndexInterleaved(c, y, x, h, w) == y * w * TensorChannels + x * TensorChannels + c

(* normalize: size_t idx = c * h * w + y * w + x *)
NormalizeIndex(c, y, x, h, w) == c * h * w + y * w + x

(* The writes of convertBatch for n cells and an output size, a float at   *)
(* a time: the offset into batch.data that receives channel c of pixel     *)
(* (y, x) of cell i.                                                       *)
BatchWrites(n, size) ==
    [i \in 0..(n - 1), c \in 0..(TensorChannels - 1),
     y \in 0..(size - 1), x \in 0..(size - 1) |->
        i * (TensorChannels * size * size) + NormalizeIndex(c, y, x, size, size)]

FreeTensorNoNull(t, h) ==
    IF t.data # NULL THEN <<t, Delete(h, t.data)>> ELSE <<t, h>>

(* freeTensor: <<tensor, heap>> *)
FreeTensor(t, h) ==
    IF t.data # NULL
        THEN <<[t EXCEPT !.data = NULL], Delete(h, t.data)>>
    ELSE <<t, h>>

FreeBatchKeepsSize(b, h) ==
    IF b.data # NULL
        THEN <<[b EXCEPT !.data = NULL], Delete(h, b.data)>>
    ELSE <<b, h>>

(* freeBatch: <<batch, heap>> *)
FreeBatch(b, h) ==
    IF b.data # NULL
        THEN <<[b EXCEPT !.data = NULL, !.batchSize = 0], Delete(h, b.data)>>
    ELSE <<b, h>>

----------------------------------------------------------------------------
(* SorobanDetector::DetectionParams.  Ratios of areas are held in percent  *)
(* and aspect ratios in tenths, so that the comparisons are exact.         *)

DefaultParams ==
    [minFrameAreaPct |-> 5, maxFrameAreaPct |-> 95,
     minAspect10 |-> 15, maxAspect10 |-> 100,
     minLaneCount |-> 1, maxLaneCount |-> 27,
     upperBeadRatio |-> 1, lowerBeadRatio |-> 4, beadDividerRatio |-> 1]

(* C++ integer division truncates toward zero. *)
CDiv(a, b) ==
    IF (a >= 0) = (b > 0) THEN a \div b
    ELSE -((-a) \div b)

Min(a, b) == IF a < b THEN a ELSE b

Max(a, b) == IF a > b THEN a ELSE b

(* cv::Rect(x, y, w, h) inside a rows x cols matrix: Mat::operator()(Rect)  *)
(* raises a library fault otherwise.                                       *)
RoiValid(m, r) ==
    /\ 0 <= r.x /\ 0 <= r.width  /\ r.x + r.width <= m.cols
    /\ 0 <= r.y /\ 0 <= r.height /\ r.y + r.height <= m.rows

(* Where a matrix starts in the image it is a view of; an image that is   *)
(* not a view starts at its own origin.                                    *)
Origin(m) ==
    IF "x0" \in DOMAIN m THEN [x |-> m.x0, y |-> m.y0] ELSE [x |-> 0, y |-> 0]

(* m(r): the pixels of m inside r *)
Crop(m, r) ==
    [rows |-> r.height, cols |-> r.width, channels |-> m.channels,
     x0 |-> Origin(m).x + r.x, y0 |-> Origin(m).y + r.y]

ZeroRect == [x |-> 0, y |-> 0, width |-> 0, height |-> 0]

ZeroPoint == [x |-> 0, y |-> 0]

ZeroQuad ==
    [topLeft |-> ZeroPoint, topRight |-> ZeroPoint,
     bottomRight |-> ZeroPoint, bottomLeft |-> ZeroPoint]

(* A confidence is the exact fraction num/den. *)
ZeroConfidence == [num |-> 0, den |-> 1]

----------------------------------------------------------------------------
(* SorobanDetector::detectFrame and its helpers.  A contour is what        *)
(* findContours and approxPolyDP return for it: its area, the approximated *)
(* polygon (pts), that polygon's area, convexity and bounding rectangle.   *)

(* The candidates when the aspect ratio of the rectangle is not tested. *)
FindFrameCandidatesAnyAspect(contours, imageArea, p) ==
    SelectSeq(contours, LAMBDA c :
        /\ ~(c.area * 100 < imageArea * p.minFrameAreaPct)
        /\ ~(c.area * 100 > imageArea * p.maxFrameAreaPct)
        /\ Len(c.pts) = 4 /\ c.convex)

FindFrameCandidates(contours, imageArea, p) ==
    SelectSeq(contours, LAMBDA c :
        /\ ~(c.area * 100 < imageArea * p.minFrameAreaPct)
        /\ ~(c.area * 100 > imageArea * p.maxFrameAreaPct)
        /\ Len(c.pts) = 4 /\ c.convex
        /\ ~(c.rect.width * 10 < c.rect.height * p.minAspect10)
        /\ ~(c.rect.width * 10 > c.rect.height * p.maxAspect10))

(* The corner of a quadrant: its first point, or the default corner.       *)
SelectPoint(pts, def) == IF pts = <<>> THEN def ELSE pts[1]

OrderCorners(pts) ==
    IF Len(pts) # 4 THEN ZeroQuad
    ELSE LET sx == pts[1].x + pts[2].x + pts[3].x + pts[4].x
             sy == pts[1].y + pts[2].y + pts[3].y + pts[4].y
             left(q)  == 4 * q.x < sx
             above(q) == 4 * q.y < sy
             tl == SelectSeq(pts, LAMBDA q : left(q) /\ above(q))
             tr == SelectSeq(pts, LAMBDA q : ~left(q) /\ above(q))
             br == SelectSeq(pts, LAMBDA q : ~left(q) /\ ~above(q))
             bl == SelectSeq(pts, LAMBDA q : left(q) /\ ~above(q))
         IN  [topLeft     |-> SelectPoint(tl, [x |-> 0, y |-> 0]),
              topRight    |-> SelectPoint(tr, [x |-> 100, y |-> 0]),
              bottomRight |-> SelectPoint(br, [x |-> 100, y |-> 100]),
              bottomLeft  |-> SelectPoint(bl, [x |-> 0, y |-> 100])]

NotDetectedFrame ==
    [detected |-> FALSE, corners |-> ZeroQuad, boundingBox |-> ZeroRect,
     confidence |-> ZeroConfidence, laneCount |-> 0]

(* The first candidate of strictly largest polygon area, 0 when no         *)
(* candidate has a positive area.                                          *)
BestCandidate(cands) ==
    LET better(i) == /\ cands[i].approxArea > 0
                     /\ \A j \in 1..Len(cands) :
                            /\ cands[j].approxArea <= cands[i].approxArea
                            /\ (j < i => cands[j].approxArea < cands[i].approxArea)
        S == {i \in 1..Len(cands) : better(i)}
    IN  IF S = {} THEN 0 ELSE CHOOSE i \in S : TRUE

(* The result for the best candidate c: confidence is areaRatio * 5 capped *)
(* at 1 inside the aspect range, areaRatio / 2 outside it.                 *)
DetectedFrame(c, imageArea, p) ==
    [detected |-> TRUE,
     corners |-> OrderCorners(c.pts),
     boundingBox |-> c.rect,
     confidence |->
         IF /\ c.rect.width * 10 >= c.rect.height * p.minAspect10
            /\ c.rect.width * 10 <= c.rect.height * p.maxAspect10
             THEN [num |-> Min(imageArea, 5 * c.approxArea), den |-> imageArea]
         ELSE [num |-> c.approxArea, den |-> 2 * imageArea],
     laneCount |-> 0]

SelectFrame(cands, k, imageArea, p) ==
    IF cands = <<>> \/ k = 0 THEN NotDetectedFrame
    ELSE DetectedFrame(cands[k], imageArea, p)

BestFrame(cands, imageArea, p) ==
    SelectFrame(cands, BestCandidate(cands), imageArea, p)

DetectFrame(binary, contours, p) ==
    IF MatEmpty(binary) THEN NotDetectedFrame
    ELSE BestFrame(FindFrameCandidates(contours, binary.cols * binary.rows, p),
                   binary.cols * binary.rows, p)

(* warpFrame: the rectified image always has the requested size; it is    *)
(* empty when there is no frame or no source.                              *)
EmptyMat == [rows |-> 0, cols |-> 0, channels |-> 1]

WarpFrame(original, frame, outputWidth, outputHeight) ==
    IF ~frame.detected \/ MatEmpty(original) THEN EmptyMat
    ELSE [rows |-> outputHeight, cols |-> outputWidth,
          channels |-> original.channels]

----------------------------------------------------------------------------
(* SorobanDetector::detectLaneCount.  proj is the column projection of the *)
(* gradient magnitude, a function on 0..cols-1.                            *)

MaxOf(f) == CHOOSE m \in {f[x] : x \in DOMAIN f} : \A x \in DOMAIN f : f[x] <= m

(* A variant that also takes the columns next to the borders, with the    *)
(* part of the window that lies inside the image.                          *)
PeaksWithBorders(proj, cols) ==
    {i \in 0 .. (cols - 1) :
        /\ \A j \in Max(0, i - cols \div 50) .. Min(cols - 1, i + cols \div 50) :
               j # i => proj[j] < proj[i]
        /\ proj[i] > MaxOf(proj) \div 3}

(* peaks: the columns windowSize away from both borders that are strictly  *)
(* above every other column of their window and above the threshold.       *)
Peaks(proj, cols) ==
    LET windowSize == cols \div 50
        threshold == MaxOf(proj) \div 3
    IN  {i \in windowSize .. (cols - windowSize - 1) :
            /\ \A j \in (i - windowSize) .. (i + windowSize) :
                   j # i => proj[j] < proj[i]
            /\ proj[i] > threshold}

ClampLaneCountUnclamped(raw, p) == raw

ClampLaneCount(raw, p) == Max(p.minLaneCount, Min(p.maxLaneCount, raw))

(* peakCount is peaks.size() for the projection of warped. *)
DetectLaneCount(warped, peakCount, p) ==
    IF MatEmpty(warped) THEN 0
    ELSE ClampLaneCount(peakCount - 1, p)

----------------------------------------------------------------------------
(* SorobanDetector::extractLanes *)

LaneDigitIndexLeftToRight(laneCount, i) == i

(* digitIndex of strip i (0-based) *)
LaneDigitIndex(laneCount, i) == laneCount - 1 - i

(* A variant that leaves out the last strip. *)
ExtractLanesButLast(warped, laneCount) ==
    IF MatEmpty(warped) \/ laneCount <= 0 THEN <<>>
    ELSE LET laneWidth == warped.cols \div laneCount
         IN  [k \in 1..(laneCount - 1) |->
                 [digitIndex |-> LaneDigitIndex(laneCount, k - 1),
                  boundingBox |-> [x |-> (k - 1) * laneWidth, y |-> 0,
                                   width |-> laneWidth, height |-> warped.rows],
                  value |-> 0,
                  confidence |-> ZeroConfidence]]

ExtractLanes(warped, laneCount) ==
    IF MatEmpty(warped) \/ laneCount <= 0 THEN <<>>
    ELSE LET laneWidth == warped.cols \div laneCount
         IN  [k \in 1..laneCount |->
                 [digitIndex |-> LaneDigitIndex(laneCount, k - 1),
                  boundingBox |-> [x |-> (k - 1) * laneWidth, y |-> 0,
                                   width |-> laneWidth, height |-> warped.rows],
                  value |-> 0,
                  confidence |-> ZeroConfidence]]

----------------------------------------------------------------------------
(* SorobanDetector::extractCells: [kind, cells].  kind is "cells" when the *)
(* function returns, "throws" when a crop leaves the lane (a library       *)
(* fault), "trap" when the division by a zero ratio sum traps.  divTraps   *)
(* chooses what the division by zero does on the target: trap, or yield 0. *)

LowerBeadCount == 4

ZeroRatioSum(p) == p.upperBeadRatio + p.beadDividerRatio + p.lowerBeadRatio = 0

(* A variant that lays the lower beads out from the bottom up. *)
LowerRectBottomUp(lane, lowerStart, singleLowerHeight, i) ==
    [x |-> 0, y |-> lowerStart + (LowerBeadCount - 1 - i) * singleLowerHeight,
     width |-> lane.cols, height |-> singleLowerHeight]

(* A variant that lays the lower beads out from the top of the lane. *)
LowerRectFromTop(lane, lowerStart, singleLowerHeight, i) ==
    [x |-> 0, y |-> i * singleLowerHeight,
     width |-> lane.cols, height |-> singleLowerHeight]

(* cv::Rect lowerRect(0, lowerStart + i * singleLowerHeight, lane.cols,    *)
(* singleLowerHeight)                                                      *)
LowerRect(lane, lowerStart, singleLowerHeight, i) ==
    [x |-> 0, y |-> lowerStart + i * singleLowerHeight,
     width |-> lane.cols, height |-> singleLowerHeight]

ExtractCells(lane, p, divTraps) ==
    IF MatEmpty(lane) THEN [kind |-> "cells", cells |-> <<>>, rects |-> <<>>]
    ELSE LET totalRatio == p.upperBeadRatio + p.beadDividerRatio + p.lowerBeadRatio
             div(a) == IF totalRatio = 0 THEN 0 ELSE CDiv(a, totalRatio)
             upperHeight == div(lane.rows * p.upperBeadRatio)
             dividerHeight == div(lane.rows * p.beadDividerRatio)
             lowerHeight == div(lane.rows * p.lowerBeadRatio)
             upperRect == [x |-> 0, y |-> 0, width |-> lane.cols,
                           height |-> upperHeight]
             lowerStart == upperHeight + dividerHeight
             singleLowerHeight == CDiv(lowerHeight, LowerBeadCount)
             rects == <<upperRect>> \o
                      [k \in 1..LowerBeadCount |->
                          LowerRect(lane, lowerStart, singleLowerHeight, k - 1)]
         IN  IF totalRatio = 0 /\ divTraps
                 THEN [kind |-> "trap", cells |-> <<>>, rects |-> <<>>]
             ELSE IF \E k \in 1..Len(rects) : ~RoiValid(lane, rects[k])
                 THEN [kind |-> "throws", cells |-> <<>>, rects |-> <<>>]
             ELSE [kind |-> "cells",
                   cells |-> [k \in 1..Len(rects) |-> Crop(lane, rects[k])],
                   rects |-> rects]

----------------------------------------------------------------------------
(* SorobanDetector::detectLaneBoundaries and detectVerticalLines.          *)

(* smoothed: the mean over 11 columns, 0 in the five columns at each side  *)
Smoothed(proj, cols) ==
    [i \in 0..(cols - 1) |->
        IF 5 <= i /\ i < cols - 5
            THEN (proj[i - 5] + proj[i - 4] + proj[i - 3] + proj[i - 2] + proj[i - 1]
                  + proj[i] + proj[i + 1] + proj[i + 2] + proj[i + 3] + proj[i + 4]
                  + proj[i + 5]) \div 11
        ELSE 0]

(* The strict local minima of f among columns i .. cols - 2, ascending.    *)
RECURSIVE LocalMinima(_, _, _)
LocalMinima(f, cols, i) ==
    IF i >= cols - 1 THEN <<>>
    ELSE IF f[i] < f[i - 1] /\ f[i] < f[i + 1]
        THEN <<i>> \o LocalMinima(f, cols, i + 1)
    ELSE LocalMinima(f, cols, i + 1)

(* detectLaneBoundaries, given the column projection of gray *)
DetectLaneBoundaries(empty, proj, cols) ==
    IF empty THEN <<>> ELSE LocalMinima(Smoothed(proj, cols), cols, 1)

Abs(a) == IF a < 0 THEN -a ELSE a

(* angle > 80.0 for the segment: |dy| > tan(80 deg) * |dx|, with          *)
(* tan(80 deg) = 5.67128...; atan2(0, 0) is 0.                             *)
NearVertical(line) ==
    Abs(line.y2 - line.y1) * 100000 > 567128 * Abs(line.x2 - line.x1)

(* std::unique with the predicate |a - b| < 10, which is no equivalence    *)
(* relation: the library is free in what it compares an element with.      *)
(* adjacent = FALSE compares with the last element kept, adjacent = TRUE   *)
(* with the element before it in the input.                                *)
RECURSIVE Unique(_, _, _, _)
Unique(s, i, acc, adjacent) ==
    IF i > Len(s) THEN acc
    ELSE IF i = 1 \/ ~(Abs((IF adjacent THEN s[i - 1] ELSE acc[Len(acc)]) - s[i]) < 10)
        THEN Unique(s, i + 1, Append(acc, s[i]), adjacent)
    ELSE Unique(s, i + 1, acc, adjacent)

(* detectVerticalLines, given the segments HoughLinesP returns *)
DetectVerticalLines(empty, lines, adjacent) ==
    IF empty THEN <<>>
    ELSE Unique(SortSeq([k \in 1..Len(SelectSeq(lines, NearVertical)) |->
                            CDiv(SelectSeq(lines, NearVertical)[k].x1
                                 + SelectSeq(lines, NearVertical)[k].x2, 2)],
                        LAMBDA a, b : a < b),
                1, <<>>, adjacent)

----------------------------------------------------------------------------
(* ImagePreprocessor, as far as the orchestrator reads it.  A scene is a   *)
(* raw frame with what the image library finds in it: image (size and      *)
(* channels), contours (of its binary mask), period (the spacing of the    *)
(* gradient ridges of its rectified frame) and fault (the stage in which   *)
(* the image library raises a fault, "none" for none).  Scenes are no      *)
(* larger than the resize target, so resize returns a clone.               *)

(* convertFromPixelBuffer: <<error, image>> *)
ConvertFromPixelBuffer(buf) ==
    IF buf.null THEN <<InvalidInput, EmptyMat>>
    ELSE IF ~buf.hasBase THEN <<InvalidInput, EmptyMat>>
    ELSE IF buf.format \in {"BGRA", "RGBA"}
        THEN <<None, [buf.scene.image EXCEPT !.channels = 3]>>
    ELSE <<InvalidInput, EmptyMat>>

(* convertFromPixelBuffer and the lock of the buffer: how often the call   *)
(* locks the base address and how often it unlocks it, and whether it      *)
(* returns.  fault names the library call that raises a fault: "cvtColor", *)
(* "clone", or "none".  Neither call is inside a try block, and the unlock *)
(* after them is a plain statement.                                        *)
PixelBufferLocks(buf, fault) ==
    IF buf.null THEN [kind |-> "returned", locks |-> 0, unlocks |-> 0]
    ELSE IF ~buf.hasBase THEN [kind |-> "returned", locks |-> 1, unlocks |-> 1]
    ELSE IF buf.format \in {"BGRA", "RGBA"}
        THEN IF fault # "none" THEN [kind |-> "throws", locks |-> 1, unlocks |-> 0]
             ELSE [kind |-> "returned", locks |-> 1, unlocks |-> 1]
    ELSE [kind |-> "returned", locks |-> 1, unlocks |-> 1]

(* preprocess: the error it returns *)
Preprocess(scene) ==
    IF MatEmpty(scene.image) THEN InvalidInput
    ELSE IF scene.fault = "preprocess" THEN OpenCVError
    ELSE None

(* The column projection of a rectified frame whose gradient ridges are    *)
(* period columns apart (none when period = 0).                            *)
Ridges(cols, period) ==
    [x \in 0..(cols - 1) |->
        IF period > 0 /\ x % period = period \div 2 THEN 200 ELSE 0]

(* The ridge spacings of the scenes, and peaks.size() of each in a         *)
(* rectified frame of the orchestrator's size.                             *)
Periods == {0, 300}

WarpWidth == 800
WarpHeight == 200

WarpedPeakCount ==
    [per \in Periods |-> Cardinality(Peaks(Ridges(WarpWidth, per), WarpWidth))]

----------------------------------------------------------------------------
(* AbacusVision::processInternal *)

EmptyResult(junk) ==
    [success |-> FALSE, frame |-> junk, lanes |-> <<>>,
     tensor |-> NewBatchTensor, totalCells |-> 0]

(* allCells: the cells of lanes lo..hi, in lane order. *)
RECURSIVE Flatten(_, _, _)
Flatten(outs, lo, hi) ==
    IF lo > hi THEN <<>>
    ELSE IF lo = hi THEN outs[lo].cells
    ELSE LET mid == (lo + hi) \div 2
         IN  Flatten(outs, lo, mid) \o Flatten(outs, mid + 1, hi)

(* The outcome of one call: kind ("returned", "throws" when a library      *)
(* fault leaves the function, "trap" when the process is killed), the      *)
(* result returned, the frame stored in lastFrame_ (stored = FALSE when    *)
(* the call did not reach the store), the heap, the stages that ran,       *)
(* cause: the failure that ended the call, and samples: what convertBatch  *)
(* wrote into the tensor.  junk is the indeterminate      *)
(* content of the result's frame, which no constructor initialises.        *)
Outcome(kind, res, stored, frame, h, stages, cause, samples) ==
    [kind |-> kind, result |-> res, stored |-> stored, frame |-> frame,
     heap |-> h, stages |-> stages, cause |-> cause, samples |-> samples]

(* processInternal up to the cell list: done when the call ends before     *)
(* convertBatch, cells the list handed to convertBatch otherwise.  This    *)
(* part touches no buffer.                                                 *)
Front(done, kind, res, stored, frame, stages, cause, cells) ==
    [done |-> done, kind |-> kind, result |-> res, stored |-> stored,
     frame |-> frame, stages |-> stages, cause |-> cause, cells |-> cells]

ExtractAll(p, frame, warped, laneCount, res1, st, divTraps) ==
    LET lanes == ExtractLanes(warped, laneCount)
        res2 == [res1 EXCEPT !.lanes = lanes]
        n == Len(lanes)
        roiOk(i) == RoiValid(warped, lanes[i].boundingBox)
        outs == [i \in 1..n |->
                    IF roiOk(i)
                        THEN ExtractCells(Crop(warped, lanes[i].boundingBox), p, divTraps)
                    ELSE [kind |-> "throws", cells |-> <<>>, rects |-> <<>>]]
        badLanes == {i \in 1..n : outs[i].kind # "cells"}
        firstBad == CHOOSE i \in badLanes : \A j \in badLanes : i <= j
        st2 == st \o <<"extractLanes">>
        cellStages(k) == [i \in 1..k |-> "extractCells"]
        allCells == Flatten(outs, 1, n)
        res3 == [res2 EXCEPT !.totalCells = Len(allCells)]
        st3 == st2 \o cellStages(n)
    IN  IF badLanes # {}
            THEN Front(TRUE, outs[firstBad].kind, res2, TRUE, frame,
                       st2 \o cellStages(firstBad), OpenCVError, <<>>)
        ELSE IF allCells = <<>>
            THEN Front(TRUE, "returned", [res3 EXCEPT !.success = TRUE], TRUE, frame,
                       st3, None, <<>>)
        ELSE Front(FALSE, "returned", res3, TRUE, frame, st3, None, allCells)

FrameRejectedNever(frame) == FALSE

(* if (!frame.detected) return result; *)
FrameRejected(frame) == ~frame.detected

(* A variant that splits lanes whatever the lane count. *)
AfterLaneCountNoCheck(p, frame, warped, laneCount, res1, divTraps) ==
    ExtractAll(p, frame, warped, laneCount,
               [res1 EXCEPT !.frame.laneCount = laneCount],
               <<"preprocess", "detectFrame", "warpFrame", "detectLaneCount">>,
               divTraps)

(* processInternal from the lane count on *)
AfterLaneCount(p, frame, warped, laneCount, res1, divTraps) ==
    IF laneCount <= 0
        THEN Front(TRUE, "returned", [res1 EXCEPT !.frame.laneCount = laneCount],
                   TRUE, frame,
                   <<"preprocess", "detectFrame", "warpFrame", "detectLaneCount">>,
                   LaneExtractionFailed, <<>>)
    ELSE ExtractAll(p, frame, warped, laneCount,
                    [res1 EXCEPT !.frame.laneCount = laneCount],
                    <<"preprocess", "detectFrame", "warpFrame", "detectLaneCount">>,
                    divTraps)

(* processInternal from the rectified frame on *)
AfterWarp(scene, p, frame, warped, res1, divTraps) ==
    IF MatEmpty(warped)
        THEN Front(TRUE, "returned", res1, TRUE, frame,
                   <<"preprocess", "detectFrame", "warpFrame">>,
                   LaneExtractionFailed, <<>>)
    ELSE AfterLaneCount(p, frame, warped,
                        DetectLaneCount(warped, WarpedPeakCount[scene.period], p),
                        res1, divTraps)

(* processInternal from the detection result on *)
AfterDetect(scene, p, frame, res1, divTraps) ==
    IF FrameRejected(frame)
        THEN Front(TRUE, "returned", res1, TRUE, frame,
                   <<"preprocess", "detectFrame">>, FrameNotDetected, <<>>)
    ELSE AfterWarp(scene, p, frame,
                   WarpFrame(scene.image, frame, WarpWidth, WarpHeight),
                   res1, divTraps)

(* A variant that leaves lastFrame_ as it was. *)
StoreFrameNotStored(scene, p, frame, junk, divTraps) ==
    [AfterDetect(scene, p, frame, [EmptyResult(junk) EXCEPT !.frame = frame],
                 divTraps) EXCEPT !.stored = FALSE]

(* lastFrame_ = frame; result.frame = frame; *)
StoreFrame(scene, p, frame, junk, divTraps) ==
    AfterDetect(scene, p, frame, [EmptyResult(junk) EXCEPT !.frame = frame], divTraps)

ProcessFront(scene, p, junk, divTraps) ==
    IF MatEmpty(scene.image)
        THEN Front(TRUE, "returned", EmptyResult(junk), FALSE, junk, <<>>,
                   InvalidInput, <<>>)
    ELSE IF Preprocess(scene) # None
        THEN Front(TRUE, "returned", EmptyResult(junk), FALSE, junk,
                   <<"preprocess">>, Preprocess(scene), <<>>)
    ELSE IF scene.fault = "detectFrame"
        THEN Front(TRUE, "throws", EmptyResult(junk), FALSE, junk,
                   <<"preprocess", "detectFrame">>, OpenCVError, <<>>)
    ELSE StoreFrame(scene, p, DetectFrame(scene.image, scene.contours, p), junk,
                    divTraps)

----------------------------------------------------------------------------
(* The inputs the clients draw from. *)

Clients ==
    {"tensor", "batch", "packer", "preprocessor", "detector", "vision", "bridge",
     "threads", "torch"}

CellOutputSizes == {0, DefaultCellOutputSize}

(* A direct caller of convertCell also sets a second positive size. *)
CellSizes == CellOutputSizes \cup {2}

(* Cells handed to the converter: empty, grey, colour, four-channel. *)
Cells ==
    {[rows |-> 0, cols |-> 2, channels |-> 3]}
    \cup {[rows |-> 2, cols |-> 2, channels |-> c] : c \in {1, 3, 4}}

CellLists ==
    UNION {[1..n -> {c \in Cells : c.channels # 1}] : n \in 0..MaxCells}

(* Detection parameters handed to the detector directly: the default,      *)
(* lane bounds of zero, a minimum above the rectified width, a minimum     *)
(* above the maximum, a narrow range, and bead ratios with an empty lower  *)
(* band, a negative band and a zero sum.                                   *)
ParamSet ==
    {DefaultParams,
     [DefaultParams EXCEPT !.minLaneCount = 0, !.maxLaneCount = 0],
     [DefaultParams EXCEPT !.minLaneCount = WarpWidth + 1,
                           !.maxLaneCount = WarpWidth + 1],
     [DefaultParams EXCEPT !.minLaneCount = 5, !.maxLaneCount = 4],
     [DefaultParams EXCEPT !.minLaneCount = 2, !.maxLaneCount = 3],
     [DefaultParams EXCEPT !.lowerBeadRatio = 0],
     [DefaultParams EXCEPT !.upperBeadRatio = -1],
     [DefaultParams EXCEPT !.upperBeadRatio = 0, !.lowerBeadRatio = 0,
                           !.beadDividerRatio = 0]}

Pt(x, y) == [x |-> x, y |-> y]

(* A 1000 x 300 rectangle at (100, 50) of a 1200 x 400 frame. *)
FrameContour ==
    [area |-> 300000, approxArea |-> 300000, convex |-> TRUE,
     pts |-> <<Pt(100, 50), Pt(100, 349), Pt(1099, 349), Pt(1099, 50)>>,
     rect |-> [x |-> 100, y |-> 50, width |-> 1000, height |-> 300]]

(* A speck below the minimum area, and a triangle. *)
SpeckContour ==
    [area |-> 5000, approxArea |-> 5000, convex |-> TRUE,
     pts |-> <<Pt(10, 10), Pt(10, 59), Pt(109, 59), Pt(109, 10)>>,
     rect |-> [x |-> 10, y |-> 10, width |-> 100, height |-> 50]]

TriangleContour ==
    [area |-> 150000, approxArea |-> 150000, convex |-> TRUE,
     pts |-> <<Pt(100, 50), Pt(100, 349), Pt(1099, 349)>>,
     rect |-> [x |-> 100, y |-> 50, width |-> 1000, height |-> 300]]

FrameImage == [rows |-> 400, cols |-> 1200, channels |-> 3]

Scene(image, contours, period, fault) ==
    [image |-> image, contours |-> contours, period |-> period, fault |-> fault]

PlainScene == Scene(FrameImage, <<SpeckContour, FrameContour>>, 300, "none")

(* Scenes behind a pixel buffer: an abacus frame (with ridges, without),   *)
(* no contour, a triangle, and a library fault in one stage.               *)
Scenes ==
    {PlainScene,
     Scene(FrameImage, <<SpeckContour, FrameContour>>, 0, "none"),
     Scene(FrameImage, <<>>, 0, "none"),
     Scene(FrameImage, <<SpeckContour, TriangleContour>>, 0, "none")}
    \cup {[PlainScene EXCEPT !.fault = f] :
             f \in {"preprocess", "detectFrame", "convertBatch"}}

(* Images handed to processImage: an empty image, and frames of one and of *)
(* four channels.                                                          *)
ImageScenes ==
    {Scene(EmptyMat, <<>>, 0, "none")}
    \cup {[PlainScene EXCEPT !.image.channels = c] : c \in {1, 4}}

PixelBuffer(hasBase, format, scene) ==
    [null |-> FALSE, hasBase |-> hasBase, format |-> format, scene |-> scene]

PixelBuffers ==
    {PixelBuffer(TRUE, "BGRA", s) : s \in Scenes}
    \cup {PixelBuffer(TRUE, f, PlainScene) : f \in {"RGBA", "RGB24", "420v"}}
    \cup {PixelBuffer(FALSE, "BGRA", PlainScene)}

(* Detection parameters installed in a handle: the default, lane bounds of *)
(* zero, a minimum above the rectified width, a negative bead ratio, and   *)
(* bead ratios of sum zero.                                                *)
HandleParams ==
    {DefaultParams,
     [DefaultParams EXCEPT !.minLaneCount = 0, !.maxLaneCount = 0],
     [DefaultParams EXCEPT !.minLaneCount = WarpWidth + 1,
                           !.maxLaneCount = WarpWidth + 1],
     [DefaultParams EXCEPT !.upperBeadRatio = -1],
     [DefaultParams EXCEPT !.upperBeadRatio = 0, !.lowerBeadRatio = 0,
                           !.beadDividerRatio = 0]}

(* The threads that call processImage on one handle at the same time, and  *)
(* the images they pass: a frame with an abacus and a frame without.       *)
Threads == {1, 2}

ThreadScenes == {PlainScene, Scene(FrameImage, <<>>, 0, "none")}

(* A thread outside processInternal. *)
IdleThread ==
    [pc |-> "idle", scene |-> Scene(EmptyMat, <<>>, 0, "none"),
     frame |-> NotDetectedFrame, success |-> FALSE, tensor |-> NewBatchTensor]

(* What an uninitialised FrameDetectionResult may hold. *)
JunkFrames ==
    {NotDetectedFrame,
     [NotDetectedFrame EXCEPT !.detected = TRUE, !.laneCount = 7,
                              !.confidence = [num |-> 1, den |-> 3]]}

(* ABExtractionResult{} *)
ZeroABResult ==
    [success |-> FALSE, frame |-> NotDetectedFrame, lanes |-> NULL, laneCount |-> 0,
     tensorData |-> NULL, tensorBatchSize |-> 0, tensorChannels |-> 0,
     tensorHeight |-> 0, tensorWidth |-> 0, totalCells |-> 0]

----------------------------------------------------------------------------
(* AbacusVision::processInternal and processPixelBuffer.  The part before  *)
(* convertBatch depends on the image, the parameters and the indeterminate *)
(* frame only; it is tabulated once over the inputs.                       *)

ProcessFrontTable ==
    [sc \in Scenes \cup ImageScenes, p \in HandleParams, j \in JunkFrames,
     d \in BOOLEAN |->
        ProcessFront(sc, p, j, d)]

(* A variant that reports success whatever convertBatch returned. *)
ConvertedIgnoresError(f, conv) ==
    Outcome("returned", [f.result EXCEPT !.tensor = conv[2], !.success = TRUE],
            TRUE, f.frame, conv[3], f.stages \o <<"convertBatch">>, conv[1],
            <<>>)

(* processInternal after convertBatch returned conv *)
Converted(f, conv) ==
    IF conv[1] # None
        THEN Outcome("returned", [f.result EXCEPT !.tensor = conv[2]], TRUE,
                     f.frame, conv[3], f.stages \o <<"convertBatch">>, conv[1],
                     <<>>)
    ELSE Outcome("returned",
                 [f.result EXCEPT !.tensor = conv[2], !.success = TRUE], TRUE,
                 f.frame, conv[3], f.stages \o <<"convertBatch">>, None,
                 BatchBlocks(f.cells, conv[2]))

ConvertAll(f, size, h, allocThrows, fault) ==
    IF f.done
        THEN Outcome(f.kind, f.result, f.stored, f.frame, h, f.stages, f.cause,
                     <<>>)
    ELSE Converted(f, ConvertBatch(f.cells, f.result.tensor, h, size,
                                   allocThrows = "tensor",
                                   IF fault = "convertBatch" THEN 1 ELSE 0))

ProcessInternal(scene, p, size, h, junk, allocThrows, divTraps) ==
    ConvertAll(ProcessFrontTable[scene, p, junk, divTraps], size, h, allocThrows,
               scene.fault)

(* AbacusVision::processPixelBuffer *)
ProcessPixelBuffer(buf, p, size, h, junk, allocThrows, divTraps) ==
    IF ConvertFromPixelBuffer(buf)[1] # None
        THEN Outcome("returned", EmptyResult(junk), FALSE, junk, h, <<>>,
                     ConvertFromPixelBuffer(buf)[1], <<>>)
    ELSE ProcessInternal([buf.scene EXCEPT !.image = ConvertFromPixelBuffer(buf)[2]],
                         p, size, h, junk, allocThrows, divTraps)

----------------------------------------------------------------------------
(* The state after construction. *)

Init ==
    /\ client \in Clients
    /\ params = DefaultParams
    /\ cfgSize = DefaultCellOutputSize
    /\ lastFrame \in (IF client \in {"vision", "bridge"} THEN JunkFrames
                      ELSE {NotDetectedFrame})
    /\ tensor = NewCellTensor
    /\ batch = NewBatchTensor
    /\ result \in (IF client = "vision" THEN {EmptyResult(j) : j \in JunkFrames}
                   ELSE {EmptyResult(NotDetectedFrame)})
    /\ abResult = ZeroABResult
    /\ heap = EmptyHeap
    /\ call = [op |-> "init"]
    /\ released = {}
    /\ crashed = FALSE
    /\ threads = [t \in Threads |-> IdleThread]

----------------------------------------------------------------------------
(* Direct callers of TensorConverter: one holds a CellTensor, the other a  *)
(* BatchTensor.                                                            *)

HandleVars == <<params, lastFrame>>
VisionVars == <<result, abResult>>
TensorVars == <<tensor, batch>>

SetConverterConfig(s) ==
    /\ client \in {"tensor", "batch"} /\ ~crashed
    /\ client = "batch" => s \in CellOutputSizes
    /\ s # cfgSize
    /\ cfgSize' = s
    /\ call' = [op |-> "setConfig"]
    /\ UNCHANGED <<client, threads, HandleVars, VisionVars, TensorVars, heap, released, crashed>>

ConvertCellCall(cell, allocThrows, fault) ==
    /\ client = "tensor" /\ ~crashed
    /\ Cardinality(LiveIds(heap)) < MaxAllocs
    /\ LET out == ConvertCell(cell, tensor, heap, cfgSize, allocThrows, fault)
       IN  /\ tensor' = out[2]
           /\ heap' = out[3]
           /\ call' = [op |-> "convertCell", ret |-> out[1], liveBefore |-> LiveIds(heap)]
    /\ released' = released \ {"tensor"}
    /\ UNCHANGED <<client, threads, HandleVars, VisionVars, cfgSize, batch, crashed>>

ConvertBatchCall(cells, allocThrows, faultAt) ==
    /\ client = "batch" /\ ~crashed
    /\ Cardinality(LiveIds(heap)) < MaxAllocs
    /\ faultAt <= Len(cells)
    /\ allocThrows => faultAt = 0
    /\ LET out == ConvertBatch(cells, batch, heap, cfgSize, allocThrows, faultAt)
       IN  /\ batch' = out[2]
           /\ heap' = out[3]
           /\ call' = [op |-> "convertBatch", ret |-> out[1], nCells |-> Len(cells),
                       liveBefore |-> LiveIds(heap)]
    /\ released' = released \ {"batch"}
    /\ UNCHANGED <<client, threads, HandleVars, VisionVars, cfgSize, tensor, crashed>>

FreeTensorCall ==
    /\ client = "tensor" /\ ~crashed
    /\ LET out == FreeTensor(tensor, heap)
       IN  /\ tensor' = out[1]
           /\ heap' = out[2]
    /\ call' = [op |-> "freeTensor", again |-> "tensor" \in released,
                freed |-> LiveIds(heap) \ LiveIds(heap')]
    /\ released' = released \cup {"tensor"}
    /\ UNCHANGED <<client, threads, HandleVars, VisionVars, cfgSize, batch, crashed>>

FreeBatchCall ==
    /\ client = "batch" /\ ~crashed
    /\ LET out == FreeBatch(batch, heap)
       IN  /\ batch' = out[1]
           /\ heap' = out[2]
    /\ call' = [op |-> "freeBatch", again |-> "batch" \in released,
                freed |-> LiveIds(heap) \ LiveIds(heap')]
    /\ released' = released \cup {"batch"}
    /\ UNCHANGED <<client, threads, HandleVars, VisionVars, cfgSize, tensor, crashed>>

(* A direct caller of convertBatch with small output sizes, for the writes *)
(* into the buffer: each behaviour packs one batch.                        *)

(* The largest cellOutputSize whose writes are enumerated. *)
MaxSide == 2

PackCall(n, size) ==
    /\ client = "packer" /\ call.op = "init"
    /\ call' = [op |-> "pack", n |-> n, size |-> size,
                length |-> BatchTensorSize([batchSize |-> n, channels |-> TensorChannels,
                                            height |-> size, width |-> size]),
                writes |-> BatchWrites(n, size)]
    /\ UNCHANGED <<client, threads, HandleVars, VisionVars, TensorVars, cfgSize, heap,
                   released, crashed>>

(* A direct caller of ImagePreprocessor::convertFromPixelBuffer: each      *)
(* behaviour converts one buffer, a null pointer included.                 *)

NullPixelBuffer ==
    [null |-> TRUE, hasBase |-> FALSE, format |-> "BGRA", scene |-> PlainScene]

(* A call that a fault leaves returns nothing: the record holds the code   *)
(* the C boundary reports for it, and no image.                            *)
ConvertFromPixelBufferCall(buf, fault) ==
    /\ client = "preprocessor" /\ call.op = "init"
    /\ fault # "none" => (~buf.null /\ buf.hasBase /\ buf.format \in {"BGRA", "RGBA"})
    /\ call' = [op |-> "convertFromPixelBuffer", null |-> buf.null,
                hasBase |-> buf.hasBase, format |-> buf.format,
                fault |-> fault,
                kind |-> PixelBufferLocks(buf, fault).kind,
                locks |-> PixelBufferLocks(buf, fault).locks,
                unlocks |-> PixelBufferLocks(buf, fault).unlocks,
                error |-> IF fault # "none" THEN OpenCVError
                          ELSE ConvertFromPixelBuffer(buf)[1],
                image |-> IF fault # "none" THEN EmptyMat
                          ELSE ConvertFromPixelBuffer(buf)[2]]
    /\ UNCHANGED <<client, threads, HandleVars, VisionVars, TensorVars, cfgSize, heap,
                   released, crashed>>

----------------------------------------------------------------------------
(* TorchModuleCpp::pixelBufferToTensor, TorchModule.cpp: the lock of the   *)
(* pixel buffer and the tensor built from it.  fault is "zeros" when       *)
(* building the tensor raises a fault, "none" otherwise.  The function     *)
(* does not test the base address: reading the pixels of a buffer without  *)
(* one is undefined, nullTraps chooses between a trap and a tensor of      *)
(* indeterminate values.                                                   *)

PixelBufferToTensor(buf, fault, nullTraps) ==
    LET supported == buf.format \in {"BGRA", "RGBA", "RGB24"}
        thrown == ~supported \/ fault = "zeros"
        pixels == buf.scene.image.rows * buf.scene.image.cols
        trapped == ~thrown /\ ~buf.hasBase /\ pixels > 0 /\ nullTraps
        unlockedInBranch == IF ~supported THEN 1 ELSE 0
        unlockedInCatch == IF thrown THEN 1 ELSE 0
        unlockedAtEnd == IF thrown \/ trapped THEN 0 ELSE 1
    IN  [kind |-> IF thrown THEN "throws" ELSE IF trapped THEN "trap" ELSE "returned",
         locks |-> 1,
         unlocks |-> unlockedInBranch + unlockedInCatch + unlockedAtEnd,
         tensor |-> IF thrown \/ trapped THEN <<>>
                    ELSE <<1, TensorChannels, buf.scene.image.rows,
                           buf.scene.image.cols>>]

PixelBufferToTensorCall(buf, fault, nullTraps) ==
    /\ client = "torch" /\ call.op = "init"
    /\ fault = "zeros" => buf.format \in {"BGRA", "RGBA", "RGB24"}
    /\ nullTraps => (~buf.hasBase /\ fault = "none")
    /\ LET out == PixelBufferToTensor(buf, fault, nullTraps)
       IN  /\ call' = [op |-> "pixelBufferToTensor", hasBase |-> buf.hasBase,
                       format |-> buf.format, fault |-> fault, kind |-> out.kind,
                       locks |-> out.locks, unlocks |-> out.unlocks,
                       tensor |-> out.tensor]
           /\ crashed' = (out.kind = "trap")
    /\ UNCHANGED <<client, threads, HandleVars, VisionVars, TensorVars, cfgSize, heap,
                   released>>

----------------------------------------------------------------------------
(* A direct caller of the detector's lane and cell functions, which keep   *)
(* no state between calls: each behaviour applies one of them once.        *)

(* The largest laneCount handed to extractLanes. *)
MaxLaneArg == 4

(* The widest projection enumerated in full. *)
MaxCols == 3

(* Rectified frames handed to the detector directly. *)
DetectorMats ==
    {[rows |-> r, cols |-> c, channels |-> 3] : r \in {0, 3, 6, WarpHeight}, c \in {0, 7, WarpWidth}}

(* Projections: every projection over up to MaxCols columns with values in *)
(* 0..3, and ridges over 60 columns (a window of one column to each side). *)
Projections ==
    UNION {[0..(c - 1) -> 0..3] : c \in 1..MaxCols}
    \cup {Ridges(60, per) : per \in {0, 1, 2, 3, 7}}

DetectLaneCountCall(proj, empty, p) ==
    /\ client = "detector" /\ call.op = "init"
    /\ empty => proj = Ridges(60, 0)
    /\ LET cols == Cardinality(DOMAIN proj)
           warped == IF empty THEN EmptyMat
                     ELSE [rows |-> 1, cols |-> cols, channels |-> 1]
           peakCount == Cardinality(Peaks(proj, cols))
       IN  call' = [op |-> "detectLaneCount", warped |-> warped, p |-> p,
                    proj |-> proj,
                    peakCount |-> IF empty THEN 0 ELSE peakCount,
                    out |-> DetectLaneCount(warped, peakCount, p)]
    /\ UNCHANGED <<client, threads, HandleVars, VisionVars, TensorVars, cfgSize, heap,
                   released, crashed>>

ExtractLanesCall(warped, laneCount) ==
    /\ client = "detector" /\ call.op = "init"
    /\ call' = [op |-> "extractLanes", warped |-> warped, laneCount |-> laneCount,
                out |-> ExtractLanes(warped, laneCount)]
    /\ UNCHANGED <<client, threads, HandleVars, VisionVars, TensorVars, cfgSize, heap,
                   released, crashed>>

ExtractCellsCall(lane, p, divTraps) ==
    /\ client = "detector" /\ call.op = "init"
    /\ LET out == ExtractCells(lane, p, divTraps)
       IN  /\ call' = [op |-> "extractCells", lane |-> lane, p |-> p,
                       kind |-> out.kind, out |-> out.cells, rects |-> out.rects]
           /\ crashed' = (out.kind = "trap")
    /\ UNCHANGED <<client, threads, HandleVars, VisionVars, TensorVars, cfgSize, heap, released>>

(* The most contours findContours returns to detectFrame called directly. *)
MaxContours == 2

Least(S) == CHOOSE v \in S : \A w \in S : v <= w

Greatest(S) == CHOOSE v \in S : \A w \in S : w <= v

(* cv::boundingRect of integer points: both border columns and rows count. *)
BoundingRect(pts) ==
    LET xs == {pts[i].x : i \in 1..Len(pts)}
        ys == {pts[i].y : i \in 1..Len(pts)}
    IN  [x |-> Least(xs), y |-> Least(ys),
         width |-> Greatest(xs) - Least(xs) + 1,
         height |-> Greatest(ys) - Least(ys) + 1]

(* Twice the signed area of the polygon (the shoelace sum). *)
RECURSIVE Shoelace(_, _)
Shoelace(pts, i) ==
    IF i > Len(pts) THEN 0
    ELSE LET a == pts[i]
             b == pts[(i % Len(pts)) + 1]
         IN  a.x * b.y - b.x * a.y + Shoelace(pts, i + 1)

(* cv::contourArea, for polygons whose shoelace sum is even. *)
ContourArea(pts) == Abs(Shoelace(pts, 1)) \div 2

(* cv::isContourConvex: the turns at all vertices have one orientation. *)
IsContourConvex(pts) ==
    LET n == Len(pts)
        turn(i) == LET a == pts[i]
                       b == pts[(i % n) + 1]
                       c == pts[((i + 1) % n) + 1]
                   IN  (b.x - a.x) * (c.y - b.y) - (b.y - a.y) * (c.x - b.x)
    IN  \/ \A i \in 1..n : turn(i) >= 0
        \/ \A i \in 1..n : turn(i) <= 0

(* The contour whose approximation is the polygon pts itself. *)
Polygon(pts) ==
    [area |-> ContourArea(pts), approxArea |-> ContourArea(pts),
     convex |-> IsContourConvex(pts), pts |-> pts, rect |-> BoundingRect(pts)]

(* Outlines in a 1200 x 400 frame: an upright rectangle, a frame seen from *)
(* the side (a parallelogram leaning right), a frame seen from below (a    *)
(* trapezoid), a lozenge, an upright rectangle that is taller than wide, a *)
(* small rectangle, a triangle and a dart (not convex).                    *)
Polygons ==
    {Polygon(<<Pt(100, 50), Pt(100, 349), Pt(1099, 349), Pt(1099, 50)>>),
     Polygon(<<Pt(100, 50), Pt(500, 50), Pt(1100, 350), Pt(700, 350)>>),
     Polygon(<<Pt(200, 50), Pt(1000, 50), Pt(1100, 350), Pt(100, 350)>>),
     Polygon(<<Pt(100, 200), Pt(600, 50), Pt(1100, 200), Pt(600, 350)>>),
     Polygon(<<Pt(100, 50), Pt(100, 349), Pt(299, 349), Pt(299, 50)>>),
     Polygon(<<Pt(10, 10), Pt(10, 59), Pt(109, 59), Pt(109, 10)>>),
     Polygon(<<Pt(100, 50), Pt(100, 350), Pt(1100, 350)>>),
     Polygon(<<Pt(100, 50), Pt(600, 150), Pt(1100, 50), Pt(600, 350)>>)}

ContourLists == UNION {[1..n -> Polygons] : n \in 0..MaxContours}

(* Frame filters handed to the detector directly: the default, every area  *)
(* and every aspect ratio up to 10 let through, and a minimum aspect ratio  *)
(* of 4.                                                                   *)
FrameParamSet ==
    {DefaultParams,
     [DefaultParams EXCEPT !.minFrameAreaPct = 0, !.maxFrameAreaPct = 100,
                           !.minAspect10 = 0],
     [DefaultParams EXCEPT !.minAspect10 = 40]}

DetectFrameCall(binary, contours, p) ==
    /\ client = "detector" /\ call.op = "init"
    /\ MatEmpty(binary) => contours = <<>>
    /\ call' = [op |-> "detectFrame", binary |-> binary, contours |-> contours,
                p |-> p, out |-> DetectFrame(binary, contours, p)]
    /\ UNCHANGED <<client, threads, HandleVars, VisionVars, TensorVars, cfgSize, heap,
                   released, crashed>>

(* The most segments HoughLinesP returns. *)
MaxLines == 3

(* Segments: four upright ones whose centres are 5, 7 and 18 columns       *)
(* apart, a level one and a diagonal.                                      *)
LineSegments ==
    {[x1 |-> 0, y1 |-> 0, x2 |-> 0, y2 |-> 100],
     [x1 |-> 5, y1 |-> 100, x2 |-> 5, y2 |-> 0],
     [x1 |-> 12, y1 |-> 0, x2 |-> 13, y2 |-> 100],
     [x1 |-> 30, y1 |-> 0, x2 |-> 30, y2 |-> 100],
     [x1 |-> 0, y1 |-> 50, x2 |-> 100, y2 |-> 50],
     [x1 |-> 0, y1 |-> 0, x2 |-> 100, y2 |-> 100]}

LineLists == UNION {[1..n -> LineSegments] : n \in 0..MaxLines}

DetectLaneBoundariesCall(proj, empty) ==
    /\ client = "detector" /\ call.op = "init"
    /\ empty => proj = Ridges(60, 0)
    /\ call' = [op |-> "detectLaneBoundaries", empty |-> empty, proj |-> proj,
                out |-> DetectLaneBoundaries(empty, proj, Cardinality(DOMAIN proj))]
    /\ UNCHANGED <<client, threads, HandleVars, VisionVars, TensorVars, cfgSize, heap,
                   released, crashed>>

DetectVerticalLinesCall(lines, empty, adjacent) ==
    /\ client = "detector" /\ call.op = "init"
    /\ empty => lines = <<>>
    /\ call' = [op |-> "detectVerticalLines", empty |-> empty, lines |-> lines,
                out |-> DetectVerticalLines(empty, lines, adjacent)]
    /\ UNCHANGED <<client, threads, HandleVars, VisionVars, TensorVars, cfgSize, heap,
                   released, crashed>>

----------------------------------------------------------------------------
(* The handle: setConfig and setDetectionParams. *)

SetConfig(s) ==
    /\ client \in {"vision", "bridge"} /\ ~crashed
    /\ s # cfgSize
    /\ cfgSize' = s
    /\ call' = [op |-> "setConfig"]
    /\ UNCHANGED <<client, threads, HandleVars, VisionVars, TensorVars, heap, released, crashed>>

SetDetectionParams(p) ==
    /\ client \in {"vision", "bridge"} /\ ~crashed
    /\ p # params
    /\ params' = p
    /\ call' = [op |-> "setDetectionParams"]
    /\ UNCHANGED <<client, threads, lastFrame, cfgSize, VisionVars, TensorVars, heap,
                   released, crashed>>

----------------------------------------------------------------------------
(* The C boundary of AbacusVision.cpp: abacus_vision_process and           *)
(* abacus_vision_free_result, and processImage for a C++ caller.           *)

(* result->success ? None : FrameNotDetected *)
ProcessReturnCode(success) == IF success THEN None ELSE FrameNotDetected

CallRecord(op, out, ret) ==
    [op |-> op, ran |-> TRUE, kind |-> out.kind, ret |-> ret, cause |-> out.cause,
     stages |-> out.stages, stored |-> out.stored, frame |-> out.frame,
     liveBefore |-> LiveIds(heap), samples |-> out.samples]

(* The faults named for a call are those it meets: the indeterminate frame *)
(* is read only when detection did not overwrite it, and an allocation     *)
(* fails only where the call allocates.                                    *)
Meets(out, junk, allocThrows) ==
    /\ junk # NotDetectedFrame => ~out.stored
    /\ allocThrows = "tensor" =>
           out.stages # <<>> /\ out.stages[Len(out.stages)] = "convertBatch"
    /\ allocThrows \in {"lanes", "copy"} => out.result.success

(* A null instance, pixel buffer or result pointer. *)
VisionProcessNull ==
    /\ client = "vision" /\ ~crashed
    /\ call' = [op |-> "process", ran |-> FALSE, kind |-> "returned",
                ret |-> InvalidInput, cause |-> InvalidInput, stages |-> <<>>,
                stored |-> FALSE, frame |-> NotDetectedFrame,
                liveBefore |-> LiveIds(heap), samples |-> <<>>]
    /\ UNCHANGED <<client, threads, HandleVars, VisionVars, TensorVars, cfgSize, heap,
                   released, crashed>>

VisionProcess(buf, junk, allocThrows, divTraps) ==
    /\ client = "vision" /\ ~crashed
    /\ divTraps => ZeroRatioSum(params)
    /\ Cardinality(LiveIds(heap)) < MaxAllocs
    /\ \E out \in {ProcessPixelBuffer(buf, params, cfgSize, heap, junk,
                                        allocThrows, divTraps)} :
           /\ Meets(out, junk, allocThrows)
           /\ lastFrame' = IF out.stored THEN out.frame ELSE lastFrame
           /\ heap' = out.heap
           /\ IF out.kind = "returned"
                  THEN /\ result' = out.result
                       /\ call' = CallRecord("process", out,
                                             ProcessReturnCode(out.result.success))
                       /\ released' = released \ {"result"}
                       /\ crashed' = FALSE
              ELSE /\ call' = CallRecord("process", out, OpenCVError)
                   /\ crashed' = TRUE
                   /\ UNCHANGED <<result, released>>
    /\ UNCHANGED <<client, threads, params, cfgSize, abResult, TensorVars>>

VisionProcessImage(scene, junk, allocThrows, divTraps) ==
    /\ client = "vision" /\ ~crashed
    /\ divTraps => ZeroRatioSum(params)
    /\ Cardinality(LiveIds(heap)) < MaxAllocs
    /\ \E out \in {ProcessInternal(scene, params, cfgSize, heap, junk,
                                     allocThrows, divTraps)} :
           /\ Meets(out, junk, allocThrows)
           /\ lastFrame' = IF out.stored THEN out.frame ELSE lastFrame
           /\ heap' = out.heap
           /\ call' = CallRecord("processImage", out, out.cause)
           /\ IF out.kind = "returned"
                  THEN /\ result' = out.result
                       /\ released' = released \ {"result"}
              ELSE UNCHANGED <<result, released>>
           /\ crashed' = (out.kind = "trap")
    /\ UNCHANGED <<client, threads, params, cfgSize, abResult, TensorVars>>

(* abacus_vision_free_result: <<result, heap>> *)
VisionFreeResult(res, h) ==
    LET out == FreeBatch(res.tensor, h)
    IN  <<[res EXCEPT !.tensor = out[1], !.lanes = <<>>], out[2]>>

VisionFreeResultCall ==
    /\ client = "vision" /\ ~crashed
    /\ LET out == VisionFreeResult(result, heap)
       IN  /\ result' = out[1]
           /\ heap' = out[2]
    /\ call' = [op |-> "freeResult", again |-> "result" \in released,
                freed |-> LiveIds(heap) \ LiveIds(heap')]
    /\ released' = released \cup {"result"}
    /\ UNCHANGED <<client, threads, HandleVars, cfgSize, abResult, TensorVars, crashed>>

----------------------------------------------------------------------------
(* The C boundary of AbacusVisionBridge.cpp: ab_vision_process and         *)
(* ab_vision_free_result.                                                  *)

(* ab_vision_process past its null checks: <<code, ABExtractionResult,     *)
(* heap>>, given the outcome of processPixelBuffer.  The lane array and    *)
(* the tensor copy are buffers of the heap; allocThrows names the new[]    *)
(* that raises std::bad_alloc.                                             *)
BridgeCopy(out, allocThrows) ==
    LET r0 == ZeroABResult
        cpp == out.result
        r1 == [r0 EXCEPT !.success = TRUE, !.frame = cpp.frame,
                         !.totalCells = cpp.totalCells,
                         !.laneCount = Len(cpp.lanes)]
        h1 == IF r1.laneCount > 0 THEN Alloc(out.heap, r1.laneCount) ELSE out.heap
        r2 == IF r1.laneCount > 0 THEN [r1 EXCEPT !.lanes = NewId(out.heap)] ELSE r1
        copies == cpp.tensor.data # NULL /\ cpp.tensor.batchSize > 0
        h2 == IF copies THEN Alloc(h1, BatchTensorSize(cpp.tensor)) ELSE h1
        r3 == IF copies
                  THEN [r2 EXCEPT !.tensorData = NewId(h1),
                                  !.tensorBatchSize = cpp.tensor.batchSize,
                                  !.tensorChannels = cpp.tensor.channels,
                                  !.tensorHeight = cpp.tensor.height,
                                  !.tensorWidth = cpp.tensor.width]
              ELSE r2
    IN  IF out.kind = "throws" THEN <<OpenCVError, r0, out.heap>>
        ELSE IF ~cpp.success THEN <<FrameNotDetected, r0, out.heap>>
        ELSE IF r1.laneCount > 0 /\ allocThrows = "lanes"
            THEN <<OpenCVError, r1, out.heap>>
        ELSE IF copies /\ allocThrows = "copy" THEN <<OpenCVError, r2, h1>>
        ELSE <<None, r3, h2>>

BridgeProcessNull ==
    /\ client = "bridge" /\ ~crashed
    /\ call' = [op |-> "process", ran |-> FALSE, kind |-> "returned",
                ret |-> InvalidInput, cause |-> InvalidInput, stages |-> <<>>,
                stored |-> FALSE, frame |-> NotDetectedFrame,
                liveBefore |-> LiveIds(heap), samples |-> <<>>]
    /\ UNCHANGED <<client, threads, HandleVars, VisionVars, TensorVars, cfgSize, heap,
                   released, crashed>>

BridgeProcess(buf, junk, allocThrows, divTraps) ==
    /\ client = "bridge" /\ ~crashed
    /\ divTraps => ZeroRatioSum(params)
    /\ Cardinality(LiveIds(heap)) + 3 <= MaxBridgeAllocs
    /\ \E out \in {ProcessPixelBuffer(buf, params, cfgSize, heap, junk,
                                        allocThrows, divTraps)} :
       \E ab \in {BridgeCopy(out, allocThrows)} :
           /\ Meets(out, junk, allocThrows)
           /\ lastFrame' = IF out.stored THEN out.frame ELSE lastFrame
           /\ IF out.kind = "trap"
                  THEN /\ call' = CallRecord("process", out, OpenCVError)
                       /\ crashed' = TRUE
                       /\ abResult' = ZeroABResult
                       /\ heap' = out.heap
                       /\ UNCHANGED released
              ELSE /\ call' = CallRecord("process", out, ab[1])
                   /\ abResult' = ab[2]
                   /\ heap' = ab[3]
                   /\ released' = released \ {"abResult"}
                   /\ crashed' = FALSE
    /\ UNCHANGED <<client, threads, params, cfgSize, result, TensorVars>>

(* ab_vision_free_result: <<ABExtractionResult, heap>> *)
BridgeFreeResult(r, h) ==
    LET h1 == IF r.lanes # NULL THEN Delete(h, r.lanes) ELSE h
        h2 == IF r.tensorData # NULL THEN Delete(h1, r.tensorData) ELSE h1
    IN  <<[r EXCEPT !.lanes = NULL, !.tensorData = NULL, !.laneCount = 0,
                    !.tensorBatchSize = 0], h2>>

BridgeFreeResultCall ==
    /\ client = "bridge" /\ ~crashed
    /\ LET out == BridgeFreeResult(abResult, heap)
       IN  /\ abResult' = out[1]
           /\ heap' = out[2]
    /\ call' = [op |-> "freeResult", again |-> "abResult" \in released,
                freed |-> LiveIds(heap) \ LiveIds(heap')]
    /\ released' = released \cup {"abResult"}
    /\ UNCHANGED <<client, threads, HandleVars, cfgSize, result, TensorVars, crashed>>

----------------------------------------------------------------------------
(* Two threads inside AbacusVision::processInternal on the same handle,    *)
(* the configuration left alone.  A thread's image, frame and result are   *)
(* its own; params_, config_ and lastFrame_ are the handle's.  The         *)
(* assignment lastFrame_ = frame copies a structure and is not atomic: it  *)
(* is two steps, the flag and the geometry, then the confidence and the    *)
(* lane count.                                                             *)

(* image.empty() and preprocess: the thread's own matrices *)
ThreadBegin(t, scene) ==
    /\ client = "threads" /\ threads[t].pc = "idle"
    /\ ~MatEmpty(scene.image) /\ Preprocess(scene) = None
    /\ threads' = [threads EXCEPT ![t] = [IdleThread EXCEPT !.pc = "preprocessed",
                                                             !.scene = scene]]
    /\ UNCHANGED <<client, params, cfgSize, lastFrame, VisionVars, TensorVars,
                   heap, call, released, crashed>>

(* FrameDetectionResult frame = detector_->detectFrame(...): reads params_ *)
ThreadDetect(t) ==
    /\ client = "threads" /\ threads[t].pc = "preprocessed"
    /\ threads' = [threads EXCEPT
                       ![t].pc = "detected",
                       ![t].frame = DetectFrame(threads[t].scene.image,
                                                threads[t].scene.contours, params)]
    /\ UNCHANGED <<client, params, cfgSize, lastFrame, VisionVars, TensorVars,
                   heap, call, released, crashed>>

(* lastFrame_ = frame, first part *)
ThreadStoreBegin(t) ==
    /\ client = "threads" /\ threads[t].pc = "detected"
    /\ lastFrame' = [lastFrame EXCEPT !.detected = threads[t].frame.detected,
                                      !.corners = threads[t].frame.corners,
                                      !.boundingBox = threads[t].frame.boundingBox]
    /\ threads' = [threads EXCEPT ![t].pc = "storing"]
    /\ UNCHANGED <<client, params, cfgSize, VisionVars, TensorVars, heap, call,
                   released, crashed>>

(* lastFrame_ = frame, second part *)
ThreadStoreEnd(t) ==
    /\ client = "threads" /\ threads[t].pc = "storing"
    /\ lastFrame' = [lastFrame EXCEPT !.confidence = threads[t].frame.confidence,
                                      !.laneCount = threads[t].frame.laneCount]
    /\ threads' = [threads EXCEPT ![t].pc = "stored"]
    /\ UNCHANGED <<client, params, cfgSize, VisionVars, TensorVars, heap, call,
                   released, crashed>>

(* The rest of processInternal: the thread's own matrices and result, and  *)
(* the tensor it allocates.                                                *)
ThreadFinish(t) ==
    /\ client = "threads" /\ threads[t].pc = "stored"
    /\ \E out \in {ProcessInternal(threads[t].scene, params, cfgSize, heap,
                                     NotDetectedFrame, "none", FALSE)} :
           /\ heap' = out.heap
           /\ threads' = [threads EXCEPT ![t].pc = "done",
                                         ![t].success = out.result.success,
                                         ![t].tensor = out.result.tensor]
    /\ UNCHANGED <<client, params, cfgSize, lastFrame, VisionVars, TensorVars,
                   call, released, crashed>>

(* The caller frees the result it was handed. *)
ThreadRelease(t) ==
    /\ client = "threads" /\ threads[t].pc = "done"
    /\ heap' = FreeBatch(threads[t].tensor, heap)[2]
    /\ threads' = [threads EXCEPT ![t] = IdleThread]
    /\ UNCHANGED <<client, params, cfgSize, lastFrame, VisionVars, TensorVars,
                   call, released, crashed>>

----------------------------------------------------------------------------

Next ==
    \/ \E s \in CellSizes : SetConverterConfig(s)
    \/ \E c \in Cells, a \in BOOLEAN, f \in BOOLEAN : ConvertCellCall(c, a, f)
    \/ \E cs \in CellLists, a \in BOOLEAN, k \in 0..MaxCells :
           ConvertBatchCall(cs, a, k)
    \/ FreeTensorCall
    \/ FreeBatchCall
    \/ \E n \in 1..MaxCells, s \in 1..MaxSide : PackCall(n, s)
    \/ \E b \in PixelBuffers \cup {NullPixelBuffer}, f \in {"none", "cvtColor", "clone"} :
           ConvertFromPixelBufferCall(b, f)
    \/ \E b \in PixelBuffers, f \in {"none", "zeros"}, t \in BOOLEAN :
           PixelBufferToTensorCall(b, f, t)
    \/ \E proj \in Projections, e \in BOOLEAN, p \in ParamSet :
           DetectLaneCountCall(proj, e, p)
    \/ \E w \in DetectorMats, n \in (-1)..MaxLaneArg : ExtractLanesCall(w, n)
    \/ \E l \in DetectorMats, p \in ParamSet, d \in BOOLEAN : ExtractCellsCall(l, p, d)
    \/ \E b \in {FrameImage, EmptyMat}, cs \in ContourLists, p \in FrameParamSet :
           DetectFrameCall(b, cs, p)
    \/ \E proj \in Projections, e \in BOOLEAN : DetectLaneBoundariesCall(proj, e)
    \/ \E ls \in LineLists, e \in BOOLEAN, a \in BOOLEAN :
           DetectVerticalLinesCall(ls, e, a)
    \/ \E s \in CellOutputSizes : SetConfig(s)
    \/ \E p \in HandleParams : SetDetectionParams(p)
    \/ VisionProcessNull
    \/ \E b \in PixelBuffers, j \in JunkFrames, a \in {"none", "tensor"},
          d \in BOOLEAN : VisionProcess(b, j, a, d)
    \/ \E sc \in ImageScenes, j \in JunkFrames, a \in {"none", "tensor"},
          d \in BOOLEAN : VisionProcessImage(sc, j, a, d)
    \/ VisionFreeResultCall
    \/ BridgeProcessNull
    \/ \E b \in PixelBuffers, j \in JunkFrames,
          a \in {"none", "tensor", "lanes", "copy"}, d \in BOOLEAN :
           BridgeProcess(b, j, a, d)
    \/ BridgeFreeResultCall
    \/ \E t \in Threads, sc \in ThreadScenes : ThreadBegin(t, sc)
    \/ \E t \in Threads : ThreadDetect(t)
    \/ \E t \in Threads : ThreadStoreBegin(t)
    \/ \E t \in Threads : ThreadStoreEnd(t)
    \/ \E t \in Threads : ThreadFinish(t)
    \/ \E t \in Threads : ThreadRelease(t)

Spec == Init /\ [][Next]_vars

----------------------------------------------------------------------------
(* C1: whenever processFrame returns success = true, totalCells is five    *)
(* times the number of lanes and the tensor's batchSize equals totalCells. *)
(* A lane minimum above the rectified width makes every lane strip empty:  *)
(* the call succeeds with lanes and no cell.                               *)
C1_SuccessHasFiveCellsPerLane ==
    (/\ client = "vision"
     /\ call.op \in {"process", "processImage"}
     /\ call.ran /\ call.kind = "returned"
     /\ result.success)
        => /\ result.totalCells = Len(result.lanes) * 5
           /\ result.tensor.batchSize = result.totalCells

----------------------------------------------------------------------------
(* C2: for a non-empty rectified image and laneCount > 0, extractLanes     *)
(* returns laneCount lanes, lane i (from 0) has digitIndex                 *)
(* laneCount - 1 - i, and every lane has value 0 and confidence 0.         *)
C2_LanesRightToLeft ==
    (/\ call.op = "extractLanes"
     /\ ~MatEmpty(call.warped)
     /\ call.laneCount > 0)
        => /\ Len(call.out) = call.laneCount
           /\ \A i \in 0..(call.laneCount - 1) :
                  /\ call.out[i + 1].digitIndex = call.laneCount - 1 - i
                  /\ call.out[i + 1].value = 0
                  /\ call.out[i + 1].confidence.num = 0

(* C2 witness: extractLanes has split a non-empty image in several lanes.  *)
C2_Witness ==
    /\ call.op = "extractLanes"
    /\ ~MatEmpty(call.warped)
    /\ call.laneCount = MaxLaneArg
    /\ Len(call.out) = MaxLaneArg
    /\ call.out[MaxLaneArg].digitIndex = 0

----------------------------------------------------------------------------
(* C3 as stated: the value detectLaneCount returns lies within             *)
(* [minLaneCount, maxLaneCount] for every image and every parameters.      *)
C3_AlwaysWithinBounds ==
    call.op = "detectLaneCount"
        => /\ call.p.minLaneCount <= call.out
           /\ call.out <= call.p.maxLaneCount

(* C3 amended: an empty image gives 0; a non-empty image gives a value     *)
(* within [minLaneCount, maxLaneCount] when minLaneCount <= maxLaneCount,  *)
(* and minLaneCount when minLaneCount > maxLaneCount.                      *)
C3_WithinBoundsWhenOrdered ==
    call.op = "detectLaneCount"
        => IF MatEmpty(call.warped) THEN call.out = 0
           ELSE IF call.p.minLaneCount <= call.p.maxLaneCount
               THEN /\ call.p.minLaneCount <= call.out
                    /\ call.out <= call.p.maxLaneCount
           ELSE call.out = call.p.minLaneCount

(* C3 witness: more peaks than maxLaneCount + 1 were found in a non-empty  *)
(* image and the count was cut to maxLaneCount.                            *)
C3_Witness ==
    /\ call.op = "detectLaneCount"
    /\ ~MatEmpty(call.warped)
    /\ call.p.minLaneCount <= call.p.maxLaneCount
    /\ call.peakCount - 1 > call.p.maxLaneCount
    /\ call.out = call.p.maxLaneCount

----------------------------------------------------------------------------
(* C4: release is idempotent at every layer.  No delete[] is ever applied  *)
(* to a buffer that is not allocated, and a release of an object that was  *)
(* released since it last received a buffer (freeTensor, freeBatch,        *)
(* abacus_vision_free_result, ab_vision_free_result) changes neither the   *)
(* object nor the heap.                                                    *)
C4_ReleaseIdempotent ==
    [][/\ ~heap'.doubleFree
       /\ (call'.op = "freeTensor" /\ "tensor" \in released)
              => (tensor' = tensor /\ heap' = heap)
       /\ (call'.op = "freeBatch" /\ "batch" \in released)
              => (batch' = batch /\ heap' = heap)
       /\ (call'.op = "freeResult" /\ "result" \in released)
              => (result' = result /\ heap' = heap)
       /\ (call'.op = "freeResult" /\ "abResult" \in released)
              => (abResult' = abResult /\ heap' = heap)]_vars

(* C4 witness: a tensor that was released is released again, with another *)
(* buffer still allocated.                                                 *)
C4_Witness ==
    /\ call.op = "freeTensor"
    /\ call.again
    /\ call.freed = {}
    /\ tensor.data = NULL
    /\ LiveIds(heap) # {}
    /\ ~heap.doubleFree

----------------------------------------------------------------------------
----------------------------------------------------------------------------
(* C6: no partial tensor.  When convertBatch of a non-empty list returns   *)
(* an error, batch.data is null and no buffer is allocated that was not    *)
(* allocated before the call; when processFrame returns success = false,   *)
(* result.tensor holds no buffer and the call has left no buffer behind.   *)
C6_NoPartialTensor ==
    /\ (call.op = "convertBatch" /\ call.nCells > 0 /\ call.ret # None)
           => /\ batch.data = NULL
              /\ LiveIds(heap) \subseteq call.liveBefore
    /\ (/\ client = "vision"
        /\ call.op \in {"process", "processImage"}
        /\ call.ran /\ call.kind = "returned"
        /\ ~result.success)
           => /\ result.tensor.data = NULL
              /\ LiveIds(heap) \subseteq call.liveBefore

(* C6 witness: convertBatch of several cells allocated its buffer, met a   *)
(* cell of four channels and returned InvalidInput.                        *)
C6_Witness ==
    /\ call.op = "convertBatch"
    /\ call.nCells = MaxCells
    /\ call.ret = InvalidInput
    /\ batch.data = NULL
    /\ batch.batchSize = MaxCells

----------------------------------------------------------------------------
(* C7: convertBatch of an empty list returns InvalidInput, allocates no    *)
(* buffer and leaves the BatchTensor unchanged.                            *)
C7_EmptyListRejected ==
    [][(call'.op = "convertBatch" /\ call'.nCells = 0)
           => /\ call'.ret = InvalidInput
              /\ batch' = batch
              /\ heap' = heap]_vars

(* C7 witness: an empty list was handed in with a batch that holds the     *)
(* buffer of an earlier conversion.                                        *)
C7_Witness ==
    /\ call.op = "convertBatch"
    /\ call.nCells = 0
    /\ call.ret = InvalidInput
    /\ batch.data # NULL
    /\ batch.batchSize > 0

----------------------------------------------------------------------------
----------------------------------------------------------------------------
(* C9: the boundary process function returns the error code of the failure *)
(* that occurred (0 on success, 1 for bad input, 2 when no frame is found, *)
(* 3 for a lane failure, 4 or 5 when the tensor cannot be built, 6 for a   *)
(* library fault).  Both boundaries return 2 for every failure of the      *)
(* pipeline.                                                               *)
C9_ReturnsCodeOfFailure ==
    (call.op = "process" /\ call.kind = "returned") => call.ret = call.cause

----------------------------------------------------------------------------
(* C10: when detectFrame reports detected = false, processFrame returns    *)
(* success = false, result.frame is that detection result (confidence 0,   *)
(* laneCount 0), there are no lanes, no cells and no tensor, and no stage  *)
(* after detectFrame has run.                                              *)
C10_NoFrameEndsCall ==
    (/\ client = "vision"
     /\ call.op \in {"process", "processImage"}
     /\ call.ran /\ call.stored
     /\ ~call.frame.detected)
        => /\ call.kind = "returned"
           /\ ~result.success
           /\ result.frame = call.frame
           /\ result.frame.confidence.num = 0
           /\ result.frame.laneCount = 0
           /\ result.lanes = <<>>
           /\ result.totalCells = 0
           /\ result.tensor.data = NULL
           /\ call.stages = <<"preprocess", "detectFrame">>

(* C10 witness: a frame without a four-point contour was processed.        *)
C10_Witness ==
    /\ client = "vision"
    /\ call.op = "process"
    /\ call.ran /\ call.stored
    /\ ~call.frame.detected
    /\ ~result.success
    /\ call.stages = <<"preprocess", "detectFrame">>

----------------------------------------------------------------------------
(* C11: the last-frame accessor returns the FrameDetectionResult that      *)
(* detectFrame produced in the most recent call that reached frame         *)
(* detection, detected or not; a call that ends before detection returns   *)
(* (null argument, empty input, buffer conversion or preprocessing         *)
(* failure), and every operation that is not a process call, leave the     *)
(* stored result unchanged.  The calls are made one after another.         *)
C11_LastFrameIsLatestDetection ==
    [][client = "threads" \/
       IF call'.op \in {"process", "processImage"} /\ call'.ran
           /\ Len(call'.stages) >= 2
           /\ ~(call'.kind = "throws" /\ Len(call'.stages) = 2)
           THEN /\ call'.stages[2] = "detectFrame"
                /\ lastFrame' = call'.frame
                /\ lastFrame'.laneCount = 0
                /\ ~lastFrame'.detected => lastFrame' = NotDetectedFrame
       ELSE lastFrame' = lastFrame]_vars

(* C11 witness: a frame detected by an earlier call is still stored after  *)
(* a call that ended before detection.                                     *)
C11_Witness ==
    /\ call.op \in {"process", "processImage"}
    /\ call.ran /\ ~call.stored /\ call.kind = "returned"
    /\ lastFrame.detected /\ lastFrame.boundingBox # ZeroRect

----------------------------------------------------------------------------
----------------------------------------------------------------------------
(* C13: for every image width W and laneCount > 0 the strips returned by   *)
(* extractLanes partition the width evenly: all strips have the same       *)
(* width, strip i starts where strip i-1 ends, the first at x = 0, every   *)
(* strip lies within the width, and together they cover the whole width.   *)
(* The strip width is W / laneCount rounded down, so the last              *)
(* W mod laneCount columns belong to no strip.                             *)
C13_StripsPartitionWidth ==
    (/\ call.op = "extractLanes"
     /\ ~MatEmpty(call.warped)
     /\ call.laneCount > 0)
        => /\ Len(call.out) = call.laneCount
           /\ \A i \in 1..Len(call.out) :
                  /\ call.out[i].boundingBox.width = call.out[1].boundingBox.width
                  /\ call.out[i].boundingBox.x >= 0
                  /\ call.out[i].boundingBox.x + call.out[i].boundingBox.width
                         <= call.warped.cols
                  /\ i > 1 => call.out[i].boundingBox.x =
                                  call.out[i - 1].boundingBox.x
                                  + call.out[i - 1].boundingBox.width
           /\ call.out[1].boundingBox.x = 0
           /\ call.out[Len(call.out)].boundingBox.x
                  + call.out[Len(call.out)].boundingBox.width = call.warped.cols

----------------------------------------------------------------------------
(* C14: on success the batch tensor holds the samples in lane-then-cell    *)
(* order: the sample at batch index 5 * i + k is cell k (0 the upper bead, *)
(* 1..4 the lower beads) of lanes[i], in its own block of C * H * W floats *)
(* at offset (5 * i + k) * C * H * W, laid out channel-major; every        *)
(* element of the buffer is written exactly once and no write falls        *)
(* outside the buffer.                                                     *)
C14_SamplesInLaneThenCellOrder ==
    /\ (/\ client \in {"vision", "bridge"}
        /\ call.op \in {"process", "processImage"}
        /\ call.ran /\ call.kind = "returned" /\ call.ret = None
        /\ call.samples # <<>>)
           => LET total == params.upperBeadRatio + params.beadDividerRatio
                               + params.lowerBeadRatio
                  upper == (WarpHeight * params.upperBeadRatio) \div total
                  divider == (WarpHeight * params.beadDividerRatio) \div total
                  single == ((WarpHeight * params.lowerBeadRatio) \div total) \div 4
                  cellSize == TensorChannels * cfgSize * cfgSize
                  lanes == IF client = "vision" THEN Len(result.lanes)
                           ELSE abResult.laneCount
                  laneWidth == WarpWidth \div lanes
                  held == IF client = "vision" THEN BufLen(heap, result.tensor.data)
                          ELSE BufLen(heap, abResult.tensorData)
              IN  /\ Len(call.samples) = 5 * lanes
                  /\ held = 5 * lanes * cellSize
                  /\ \A i \in 0..(lanes - 1) : \A k \in 0..4 :
                         /\ call.samples[5 * i + k + 1].offset = (5 * i + k) * cellSize
                         /\ call.samples[5 * i + k + 1].len = cellSize
                         /\ call.samples[5 * i + k + 1].cell.x0 = i * laneWidth
                         /\ call.samples[5 * i + k + 1].cell.cols = laneWidth
                         /\ call.samples[5 * i + k + 1].cell.y0 =
                                IF k = 0 THEN 0 ELSE upper + divider + (k - 1) * single
                         /\ call.samples[5 * i + k + 1].cell.rows =
                                IF k = 0 THEN upper ELSE single
                  /\ client = "vision" =>
                         \A i \in 1..lanes :
                             result.lanes[i].boundingBox.x = (i - 1) * laneWidth
    /\ call.op = "pack"
           => /\ \A q \in DOMAIN call.writes :
                     call.writes[q] = q[1] * (3 * call.size * call.size)
                                      + q[2] * (call.size * call.size)
                                      + q[3] * call.size + q[4]
              /\ \A e \in 0..(call.length - 1) :
                     Cardinality({q \in DOMAIN call.writes : call.writes[q] = e}) = 1
              /\ \A q \in DOMAIN call.writes :
                     call.writes[q] \in 0..(call.length - 1)

(* C14 witness: a frame of several lanes has been packed into a tensor.    *)
C14_Witness ==
    /\ client = "vision"
    /\ call.op = "process" /\ call.kind = "returned"
    /\ result.success
    /\ Len(result.lanes) > 1
    /\ Len(call.samples) = 5 * Len(result.lanes)
    /\ result.tensor.data # NULL

----------------------------------------------------------------------------
(* C15: convertFromPlatformBuffer returns a colour image with error None   *)
(* for every buffer in 32-bit BGRA, 32-bit RGBA or 24-bit RGB layout that  *)
(* has pixel data, and InvalidInput with no image for a null buffer, a     *)
(* buffer without pixel data and any other layout.  The code accepts the   *)
(* two 32-bit layouts only.                                                *)
C15_AcceptsThreeLayouts ==
    call.op = "convertFromPixelBuffer"
        => IF ~call.null /\ call.hasBase /\ call.format \in {"BGRA", "RGBA", "RGB24"}
               THEN /\ call.error = None
                    /\ ~MatEmpty(call.image)
                    /\ call.image.channels = 3
           ELSE /\ call.error = InvalidInput
                /\ MatEmpty(call.image)

----------------------------------------------------------------------------
(* C16: a library fault raised inside a pipeline stage never leaves        *)
(* processFrame or the boundary process function: it is turned into an     *)
(* error code or success = false, and the caller can process the next      *)
(* frame.  Only preprocess and convertBatch catch what the image library   *)
(* raises; a fault of any other stage leaves processInternal, and          *)
(* abacus_vision_process does not catch it either.                         *)
C16_FaultsNeverEscape ==
    (call.op \in {"process", "processImage"} /\ call.ran)
        => /\ call.kind # "throws"
           /\ crashed => call.kind = "trap"

----------------------------------------------------------------------------
(* C17: two processFrame calls that run at the same time share no mutable  *)
(* state, also when both are made on the same handle with the              *)
(* configuration left alone: neither writes a location the other reads or  *)
(* writes.  Both calls write the handle's lastFrame_.                      *)
C17_NoSharedWrites ==
    \A s \in Threads : \A t \in Threads \ {s} :
        ~(threads[s].pc = "storing" /\ threads[t].pc = "storing")

----------------------------------------------------------------------------
(* C18: the failure terminal is entered only from candidate search or      *)
(* frame selection: once detectFrame has returned detected = true the call *)
(* proceeds through rectification, lane counting, lane splitting and cell  *)
(* extraction, and no later stage ends it in failure.                      *)
C18_NoFailureAfterDetection ==
    (/\ client = "vision"
     /\ call.op \in {"process", "processImage"}
     /\ call.ran /\ call.stored
     /\ call.frame.detected)
        => /\ call.kind = "returned"
           /\ result.success
           /\ "extractLanes" \in {call.stages[i] : i \in DOMAIN call.stages}

(* C18 as the code has it: after detected = true the call is always        *)
(* rectified and its lanes counted; it still ends in failure when the lane *)
(* count is not positive (no lane is split), when a cell crop raises a     *)
(* library fault, or when convertBatch fails; it reports success exactly   *)
(* when no stage failed, and then lanes were split and cells extracted     *)
(* for every lane.                                                         *)
C18_FailureAlsoAfterDetection ==
    (/\ client = "vision"
     /\ call.op \in {"process", "processImage"}
     /\ call.ran /\ call.stored
     /\ call.frame.detected)
        => /\ Len(call.stages) >= 4
           /\ SubSeq(call.stages, 1, 4) =
                  <<"preprocess", "detectFrame", "warpFrame", "detectLaneCount">>
           /\ call.kind = "returned" =>
                  /\ result.success <=> call.cause = None
                  /\ result.frame.laneCount <= 0 <=> Len(call.stages) = 4
                  /\ result.frame.laneCount <= 0 => ~result.success
                  /\ result.success =>
                         /\ call.stages[5] = "extractLanes"
                         /\ Len(result.lanes) = result.frame.laneCount
                         /\ Len(SelectSeq(call.stages, LAMBDA st : st = "extractCells"))
                                = Len(result.lanes)
                  /\ (~result.success /\ result.frame.laneCount > 0) =>
                         /\ call.stages[Len(call.stages)] = "convertBatch"
                         /\ call.cause \in {InvalidInput, TensorConversionFailed}
           /\ call.kind = "throws" =>
                  call.stages[Len(call.stages)] = "extractCells"

(* C18 witness: a call whose frame was detected has ended in failure at    *)
(* the lane count.                                                         *)
C18_Witness ==
    /\ client = "vision"
    /\ call.op = "process" /\ call.ran /\ call.kind = "returned"
    /\ call.stored /\ call.frame.detected
    /\ ~result.success
    /\ call.stages[Len(call.stages)] = "detectLaneCount"

----------------------------------------------------------------------------
----------------------------------------------------------------------------
(* C20: for every column projection of the rectified image,                *)
(* detectLaneCount is P - 1 clamped into [minLaneCount, maxLaneCount],     *)
(* where P is the number of columns whose value exceeds one third of the   *)
(* global maximum and is strictly greater than every other value in the    *)
(* window of half-width imageWidth / 50 around it.  An empty image         *)
(* returns 0, and the columns nearer than the half-width to a border are   *)
(* never counted.                                                          *)
C20_ClampedPeakCount ==
    call.op = "detectLaneCount"
        => LET cols == Cardinality(DOMAIN call.proj)
               w == cols \div 50
               m == MaxOf(call.proj)
               P == Cardinality(
                        {i \in 0..(cols - 1) :
                            /\ 3 * call.proj[i] > m
                            /\ \A j \in (i - w)..(i + w) :
                                   (j \in 0..(cols - 1) /\ j # i)
                                       => call.proj[j] < call.proj[i]})
           IN  call.out = IF P - 1 < call.p.minLaneCount THEN call.p.minLaneCount
                          ELSE IF P - 1 > call.p.maxLaneCount THEN call.p.maxLaneCount
                          ELSE P - 1

(* C20 as the code has it: 0 for an empty image; otherwise                 *)
(* max(minLaneCount, min(maxLaneCount, P - 1)), where P counts the columns *)
(* i with w <= i < width - w, w = width / 50 rounded down, whose value     *)
(* exceeds one third of the global maximum and is strictly greater than    *)
(* every other value of columns i - w .. i + w.                            *)
C20_ClampedInnerPeakCount ==
    call.op = "detectLaneCount"
        => LET cols == Cardinality(DOMAIN call.proj)
               w == cols \div 50
               m == MaxOf(call.proj)
               P == Cardinality(
                        {i \in w..(cols - w - 1) :
                            /\ 3 * call.proj[i] > m
                            /\ \A j \in (i - w)..(i + w) :
                                   j # i => call.proj[j] < call.proj[i]})
               lo == call.p.minLaneCount
               hi == call.p.maxLaneCount
               capped == IF P - 1 > hi THEN hi ELSE P - 1
           IN  call.out = IF MatEmpty(call.warped) THEN 0
                          ELSE IF capped < lo THEN lo ELSE capped

(* C20 witness: a projection with a ridge in its last column has been      *)
(* counted, and the count lies strictly inside the lane range.             *)
C20_Witness ==
    /\ call.op = "detectLaneCount"
    /\ ~MatEmpty(call.warped)
    /\ call.warped.cols = 60
    /\ call.proj[59] > call.proj[58]
    /\ call.out = call.peakCount - 1
    /\ call.p.minLaneCount < call.out /\ call.out < call.p.maxLaneCount

----------------------------------------------------------------------------
(* C21: both boundary estimators, detectLaneBoundaries and                 *)
(* detectVerticalLines, return x-positions in ascending order of which     *)
(* any two consecutive ones are at least 10 pixels apart.                  *)
(* detectLaneBoundaries returns every strict local minimum of the smoothed *)
(* projection and merges nothing.                                          *)
C21_BothSortedAndMerged ==
    call.op \in {"detectLaneBoundaries", "detectVerticalLines"}
        => \A i \in 1..(Len(call.out) - 1) : call.out[i + 1] - call.out[i] >= 10

----------------------------------------------------------------------------
(* C22: for non-null arguments ab_vision_process returns 0 exactly when    *)
(* result->success is true on return, and whenever it returns a non-zero   *)
(* code, an allocation that fails part-way included, result->success is    *)
(* false and the result holds no lane array and no tensor buffer.          *)
(* success is set before the two new[] and is not reset in the handler.    *)
C22_CodeAgreesWithSuccess ==
    (client = "bridge" /\ call.op = "process" /\ call.ran /\ ~crashed)
        => /\ (call.ret = None) <=> abResult.success
           /\ call.ret # None
                  => /\ ~abResult.success
                     /\ abResult.lanes = NULL
                     /\ abResult.tensorData = NULL

----------------------------------------------------------------------------
(* C23: on return from ab_vision_process every buffer allocated during the *)
(* call is owned by the returned ABExtractionResult or has been released:  *)
(* after a call that began with no live buffer, the live buffers are the   *)
(* lane array and the tensor copy of the result and nothing else.          *)
(* The buffer convertBatch built for cppResult.tensor is copied from and   *)
(* never deleted.                                                          *)
C23_NoBufferOutlivesCall ==
    (client = "bridge" /\ call.op = "process" /\ call.liveBefore = {})
        => LiveIds(heap) \subseteq ({abResult.lanes, abResult.tensorData} \ {NULL})

----------------------------------------------------------------------------
(* C24: for every convex contour of four points that passes the candidate  *)
(* filters, orderCorners returns the four points themselves, one each as   *)
(* topLeft, topRight, bottomRight and bottomLeft: no point is dropped and  *)
(* no default corner is put in its place.                                  *)
(* Two points on the same side of the centre in both directions go to one  *)
(* quadrant; the second is dropped and an empty quadrant gets its default. *)
C24_CornersArePermutation ==
    (call.op = "detectFrame" /\ call.out.detected)
        => \E i \in 1..Len(call.contours) :
               /\ BoundingRect(call.contours[i].pts) = call.out.boundingBox
               /\ {call.out.corners.topLeft, call.out.corners.topRight,
                   call.out.corners.bottomRight, call.out.corners.bottomLeft}
                      = {call.contours[i].pts[k] : k \in 1..4}

----------------------------------------------------------------------------
(* C25: a result of detectFrame with detected = true has a bounding box    *)
(* whose aspect ratio is within [minAspectRatio, maxAspectRatio], so its   *)
(* confidence is min(1, areaRatio * 5), the area being that of the chosen  *)
(* polygon, and lies in (0, 1]; a result with detected = false has         *)
(* confidence 0.                                                           *)
C25_ConfidenceOfDetection ==
    call.op = "detectFrame"
        => LET f == call.out
               imageArea == call.binary.cols * call.binary.rows
           IN  IF f.detected
                   THEN /\ f.boundingBox.width * 10
                               >= f.boundingBox.height * call.p.minAspect10
                        /\ f.boundingBox.width * 10
                               <= f.boundingBox.height * call.p.maxAspect10
                        /\ \E i \in 1..Len(call.contours) :
                               /\ BoundingRect(call.contours[i].pts) = f.boundingBox
                               /\ f.confidence.den % imageArea = 0
                               /\ f.confidence.num
                                      = Min(imageArea, 5 * ContourArea(call.contours[i].pts))
                                            * (f.confidence.den \div imageArea)
                        /\ 0 < f.confidence.num
                        /\ f.confidence.num <= f.confidence.den
               ELSE f.confidence.num = 0

(* A frame is detected whose polygon covers less than a fifth of the       *)
(* image, after a larger outline was filtered out.                         *)
C25_Witness ==
    /\ call.op = "detectFrame" /\ call.out.detected
    /\ call.out.confidence.num < call.out.confidence.den
    /\ Len(call.contours) = 2

----------------------------------------------------------------------------
(* C26: after a processFrame call in which frame detection ran, the        *)
(* last-frame accessor equals the frame of the ExtractionResult the call   *)
(* returned in every field, laneCount included.                            *)
(* lastFrame_ is copied from the detection before the lane count is        *)
(* written into result.frame only.                                         *)
C26_LastFrameEqualsResultFrame ==
    (client = "vision" /\ call.op = "process" /\ call.stored
        /\ call.kind = "returned")
        => lastFrame = result.frame

----------------------------------------------------------------------------
(* C27: whenever processFrame returns success = true, result.frame.detected *)
(* is true and result.frame.laneCount is lanes.size(); through             *)
(* ab_vision_process the returned laneCount, frame.laneCount and the       *)
(* length of the lanes array agree.                                        *)
C27_LaneCountsAgree ==
    /\ (client = "vision" /\ call.op = "process" /\ call.ran
            /\ call.kind = "returned" /\ result.success)
           => /\ result.frame.detected
              /\ result.frame.laneCount = Len(result.lanes)
    /\ (client = "bridge" /\ call.op = "process" /\ call.ran /\ call.ret = None
            /\ ~crashed)
           => /\ abResult.success
              /\ abResult.frame.detected
              /\ abResult.laneCount = abResult.frame.laneCount
              /\ abResult.lanes # NULL
              /\ Live(heap, abResult.lanes)
              /\ BufLen(heap, abResult.lanes) = abResult.laneCount

(* ab_vision_process has returned 0 with a lane array. *)
C27_Witness ==
    /\ client = "bridge" /\ call.op = "process" /\ call.ret = None
    /\ abResult.laneCount > 0
    /\ abResult.lanes # NULL

----------------------------------------------------------------------------
(* C28: for every non-empty lane of height H and positive bead ratios, the *)
(* five rectangles of extractCells lie within rows [0, H), appear in       *)
(* strictly top-to-bottom order, are pairwise disjoint, the four lower     *)
(* ones have equal height, and none overlaps the divider band              *)
(* [upperHeight, upperHeight + dividerHeight).                             *)

(* C28 as stated: for every non-empty lane and positive ratios the five   *)
(* rectangles are inside the lane, each ends where or before the next      *)
(* begins, the lower four are equally high, none reaches into the divider  *)
(* band, and each has a row of its own below the one before.               *)
C28_AlwaysStrictlyStacked ==
    (/\ call.op = "extractCells"
     /\ ~MatEmpty(call.lane)
     /\ call.p.upperBeadRatio > 0
     /\ call.p.beadDividerRatio > 0
     /\ call.p.lowerBeadRatio > 0)
        => LET H == call.lane.rows
               t == call.p.upperBeadRatio + call.p.beadDividerRatio
                        + call.p.lowerBeadRatio
               upperHeight == (H * call.p.upperBeadRatio) \div t
               dividerHeight == (H * call.p.beadDividerRatio) \div t
               r == call.rects
           IN  /\ call.kind = "cells"
               /\ Len(r) = 5
               /\ \A k \in 1..5 : /\ 0 <= r[k].y /\ r[k].height >= 0
                                   /\ r[k].y + r[k].height <= H
                                   /\ \/ r[k].y + r[k].height <= upperHeight
                                      \/ r[k].y >= upperHeight + dividerHeight
               /\ \A k \in 1..4 : r[k].y + r[k].height <= r[k + 1].y
               /\ \A k \in 2..5 : r[k].height = r[2].height
               /\ \A k \in 1..5 : r[k].height >= 1
               /\ \A k \in 1..4 : r[k].y < r[k + 1].y

(* C28 as the code has it: for every non-empty lane and positive ratios    *)
(* the five rectangles are inside the lane, each ends where or before the  *)
(* next begins, the lower four are equally high and none reaches into the  *)
(* divider band; they are strictly top to bottom, each with a row of its   *)
(* own, when the lane is high enough for the upper share to be a row and   *)
(* the lower share four rows.  In a lower lane rectangles of no rows share *)
(* a row.                                                                  *)
C28_StrictlyStackedWhenHighEnough ==
    (/\ call.op = "extractCells"
     /\ ~MatEmpty(call.lane)
     /\ call.p.upperBeadRatio > 0
     /\ call.p.beadDividerRatio > 0
     /\ call.p.lowerBeadRatio > 0)
        => LET H == call.lane.rows
               t == call.p.upperBeadRatio + call.p.beadDividerRatio
                        + call.p.lowerBeadRatio
               upperHeight == (H * call.p.upperBeadRatio) \div t
               dividerHeight == (H * call.p.beadDividerRatio) \div t
               r == call.rects
           IN  /\ call.kind = "cells"
               /\ Len(r) = 5
               /\ \A k \in 1..5 : /\ 0 <= r[k].y /\ r[k].height >= 0
                                   /\ r[k].y + r[k].height <= H
                                   /\ \/ r[k].y + r[k].height <= upperHeight
                                      \/ r[k].y >= upperHeight + dividerHeight
               /\ \A k \in 1..4 : r[k].y + r[k].height <= r[k + 1].y
               /\ \A k \in 2..5 : r[k].height = r[2].height
               /\ (H * call.p.upperBeadRatio >= t
                       /\ H * call.p.lowerBeadRatio >= 4 * t)
                      => /\ \A k \in 1..5 : r[k].height >= 1
                         /\ \A k \in 1..4 : r[k].y < r[k + 1].y

(* C28 witness: a lane of the rectified height was cut into five cells of  *)
(* 33 rows.                                                                *)
C28_Witness ==
    /\ call.op = "extractCells"
    /\ call.p = DefaultParams
    /\ ~MatEmpty(call.lane)
    /\ call.lane.rows = WarpHeight
    /\ call.kind = "cells"
    /\ call.rects[5].y + call.rects[5].height = 198

----------------------------------------------------------------------------
(* C29: in convertFromPixelBuffer, on every path after the null check (no  *)
(* base address, unsupported layout, successful conversion, and a library  *)
(* fault raised during colour conversion or clone) the lock of the pixel   *)
(* buffer is released exactly once before control leaves the function.     *)
(* A fault in cvtColor or clone leaves the function past the only unlock   *)
(* of that path.                                                           *)
C29_LockReleasedOnce ==
    (call.op = "convertFromPixelBuffer" /\ ~call.null)
        => /\ call.locks = 1
           /\ call.unlocks = 1

----------------------------------------------------------------------------
(* C30: in TorchModuleCpp::pixelBufferToTensor, on every path (supported   *)
(* layout, unsupported layout, fault while building the tensor) the pixel  *)
(* buffer is unlocked exactly once for the single lock taken at entry,     *)
(* never zero times and never twice.                                       *)
(* The branch for an unsupported layout unlocks and then throws inside the *)
(* try block, whose handler unlocks again.                                *)
C30_UnlockedOnce ==
    (call.op = "pixelBufferToTensor" /\ call.kind # "trap")
        => /\ call.locks = 1
           /\ call.unlocks = 1

====
